---- MODULE Spec2Model ----
(***************************************************************************)
(* A model of the reconciliation engine of todoist-jira-sync                *)
(* (src/syncer/engine.go), together with the parts of the two remote        *)
(* systems that the engine reads and writes through its clients.            *)
(*                                                                         *)
(* Strings that the engine parses (task content, issue keys) are sequences  *)
(* of one-character strings.  Strings that the engine only compares or      *)
(* passes on (status names, section names, due dates, authors) are plain    *)
(* strings.  A multi-line text is the sequence of its lines, so the empty   *)
(* text is <<"">> (what strings.Split gives for "").                        *)
(***************************************************************************)
EXTENDS Integers, Sequences, FiniteSets, TLC

VARIABLES
    tasks,      \* Todoist: the active tasks of the project, in fetch order
    completed,  \* Todoist: the contents of the tasks completed within the lookback window
    sections,   \* Todoist: the section names of the project; a section's id is its index
    issues,     \* Jira: the issues the search returns, in search order
    nextTaskID, \* Todoist: the id the next created task gets
    edits,      \* number of user actions so far
    failed,     \* number of runs so far in which a call failed
    tick,       \* flips with every run of the engine
    synced,     \* ids of the tasks whose comments were propagated and not touched since
    edit,       \* the last user edit of a task or an issue (observation only)
    last,       \* what the last run of Engine.Run did (observation only)
    codec,      \* the texts the functions of the link codec are applied to
    calc,       \* the arguments and results of the functions of the configuration and of ADF
    watch,      \* the watch command: its loop, the goroutines and the calls of the run in flight
    snap        \* what the run in flight fetched, when its fetch and its loops are two steps

vars == <<tasks, completed, sections, issues, nextTaskID, edits, failed, tick, synced,
          edit, last, codec, calc, watch, snap>>

----------------------------------------------------------------------------
(* Bounds of the model *)

MaxTasks == 2
MaxIssues == 2
MaxEdits == 1
MaxFail == 1
MaxFailedRuns == 1

----------------------------------------------------------------------------
(* Characters and the link codec: src/syncer/link.go lines 94-123 *)

Upper == {"A","B","C","D","E","F","G","H","I","J","K","L","M",
          "N","O","P","Q","R","S","T","U","V","W","X","Y","Z"}
Digit == {"0","1","2","3","4","5","6","7","8","9"}
Space == {" ", "\t", "\n", "\f", "\r"}

DigitChars == <<"1", "2", "3", "4", "5", "6", "7", "8", "9">>

\* The first index >= i of s whose character is not in C (Len(s)+1 if none).
RECURSIVE SpanIn(_, _, _)
SpanIn(s, i, C) ==
    IF i > Len(s) THEN i
    ELSE IF s[i] \notin C THEN i
    ELSE SpanIn(s, i + 1, C)

\* The first index >= i of s whose character is in C (Len(s)+1 if none).
RECURSIVE SpanNotIn(_, _, _)
SpanNotIn(s, i, C) ==
    IF i > Len(s) THEN i
    ELSE IF s[i] \in C THEN i
    ELSE SpanNotIn(s, i + 1, C)

HasAt(s, i, lit) ==
    /\ i >= 1
    /\ i + Len(lit) - 1 <= Len(s)
    /\ SubSeq(s, i, i + Len(lit) - 1) = lit

NoMatch == [ok |-> FALSE, key |-> <<>>, end |-> 1]

\* jiraPrefixPattern = ^\[([A-Z][A-Z0-9_]+-\d+)\]\(https?://[^)]+\)\s*
\* read left to right; e1, e2, p1 and e3 are the indices that follow the key's
\* letters, the key's digits, "http" or "https", and the URL.
\* ok: the pattern matches at the start of s; key: group 1; end: the index
\* that follows the match.
matchSpace(s, e2, p1, e3) ==
    IF ~(e3 > p1 + 3 /\ e3 <= Len(s)) THEN NoMatch
    ELSE [ok |-> TRUE, key |-> SubSeq(s, 2, e2 - 1), end |-> SpanIn(s, e3 + 1, Space)]

matchURL(s, e2, p1) ==
    IF ~HasAt(s, p1, <<":", "/", "/">>) THEN NoMatch
    ELSE matchSpace(s, e2, p1, SpanNotIn(s, p1 + 3, {")"}))

matchScheme(s, e1, e2) ==
    IF ~(e2 > e1 + 1 /\ HasAt(s, e2, <<"]", "(", "h", "t", "t", "p">>)) THEN NoMatch
    ELSE matchURL(s, e2, IF HasAt(s, e2 + 6, <<"s">>) THEN e2 + 7 ELSE e2 + 6)

matchDigits(s, e1) ==
    IF ~(e1 > 3 /\ HasAt(s, e1, <<"-">>)) THEN NoMatch
    ELSE matchScheme(s, e1, SpanIn(s, e1 + 1, Digit))

jiraPrefixPattern(s) ==
    IF ~(Len(s) >= 2 /\ s[1] = "[" /\ s[2] \in Upper) THEN NoMatch
    ELSE matchDigits(s, SpanIn(s, 3, Upper \cup Digit \cup {"_"}))

\* ExtractJiraKey: "" (the empty sequence) when there is no link prefix.
ExtractJiraKey(content) == jiraPrefixPattern(content).key

\* StripJiraPrefix: the content without the match, if there is one.
StripJiraPrefix(content) == SubSeq(content, jiraPrefixPattern(content).end, Len(content))

Browse == <<"/", "b", "r", "o", "w", "s", "e", "/">>

\* fmt.Sprintf("[%s](%s/browse/%s)", jiraKey, jiraBaseURL, jiraKey)
JiraLink(jiraKey, jiraBaseURL) ==
    <<"[">> \o jiraKey \o <<"]", "(">> \o jiraBaseURL \o Browse \o jiraKey \o <<")">>

LinkBefore(stripped, link) ==
    IF stripped = <<>> THEN link ELSE link \o <<" ">> \o stripped

PrependJiraLink(content, jiraKey, jiraBaseURL) ==
    LinkBefore(StripJiraPrefix(content), JiraLink(jiraKey, jiraBaseURL))

----------------------------------------------------------------------------
(* The footer codec of the earlier version: src/syncer/link.go lines 10-83 *)

syncSeparator == <<"\n", "\n", "-", "-", "-", "\n">>

\* "synced-jira-key:", the literal the pattern jiraKeyPattern starts with.
JiraKeyLit == <<"s", "y", "n", "c", "e", "d", "-", "j", "i", "r", "a", "-",
                "k", "e", "y", ":">>

jiraKeyPrefix == JiraKeyLit \o <<" ">>

\* The first index >= i of s at which lit starts (0 if none).
RECURSIVE IndexFrom(_, _, _)
IndexFrom(s, lit, i) ==
    IF i + Len(lit) - 1 > Len(s) THEN 0
    ELSE IF HasAt(s, i, lit) THEN i
    ELSE IndexFrom(s, lit, i + 1)

\* [A-Z][A-Z0-9_]+-\d+ at the index p of s; e1 and e2 are the indices that
\* follow the key's letters and the key's digits.
keyDigits(s, p, e1, e2) ==
    IF ~(e2 > e1 + 1) THEN NoMatch
    ELSE [ok |-> TRUE, key |-> SubSeq(s, p, e2 - 1), end |-> e2]

keyDash(s, p, e1) ==
    IF ~(e1 > p + 1 /\ HasAt(s, e1, <<"-">>)) THEN NoMatch
    ELSE keyDigits(s, p, e1, SpanIn(s, e1 + 1, Digit))

keyAt(s, p) ==
    IF ~(p <= Len(s) /\ s[p] \in Upper) THEN NoMatch
    ELSE keyDash(s, p, SpanIn(s, p + 1, Upper \cup Digit \cup {"_"}))

\* jiraKeyPattern = synced-jira-key:\s*([A-Z][A-Z0-9_]+-\d+), not anchored:
\* the leftmost match in s from the index i on.
RECURSIVE jiraKeyFrom(_, _)
jiraKeyTry(s, j, m) == IF m.ok THEN m ELSE jiraKeyFrom(s, j + 1)

jiraKeyFound(s, j) ==
    IF j = 0 THEN NoMatch
    ELSE jiraKeyTry(s, j, keyAt(s, SpanIn(s, j + Len(JiraKeyLit), Space)))

jiraKeyFrom(s, i) == jiraKeyFound(s, IndexFrom(s, JiraKeyLit, i))

jiraKeyPattern(s) == jiraKeyFrom(s, 1)

\* ExtractJiraKey of the footer codec: the key in a task's description.
ExtractJiraKeyFooter(description) == jiraKeyPattern(description).key

todoistPrefix == <<"s", "y", "n", "c", "e", "d", "-", "t", "o", "d", "o", "i", "s", "t",
                   "-", "i", "d", ":", " ">>

syncedAtPrefix == <<"s", "y", "n", "c", "e", "d", "-", "a", "t", ":", " ">>

\* s without the characters of C it ends with.
RECURSIVE TrimRight(_, _)
TrimRight(s, C) ==
    IF s = <<>> THEN s
    ELSE IF s[Len(s)] \notin C THEN s
    ELSE TrimRight(SubSeq(s, 1, Len(s) - 1), C)

\* todoistIDPattern = synced-todoist-id:\s*(\d+), not anchored: group 1 of
\* the leftmost match in s from the index i on ("" if there is none).
RECURSIVE todoistIDFrom(_, _)
todoistIDDigits(s, j, p) ==
    IF SpanIn(s, p, Digit) > p THEN SubSeq(s, p, SpanIn(s, p, Digit) - 1)
    ELSE todoistIDFrom(s, j + 1)

todoistIDFrom(s, i) ==
    IF IndexFrom(s, TrimRight(todoistPrefix, {" "}), i) = 0 THEN <<>>
    ELSE todoistIDDigits(s, IndexFrom(s, TrimRight(todoistPrefix, {" "}), i),
                         SpanIn(s, IndexFrom(s, TrimRight(todoistPrefix, {" "}), i)
                                     + Len(todoistPrefix) - 1, Space))

ExtractTodoistID(description) == todoistIDFrom(description, 1)

\* A time: seconds and the nanoseconds within the second.
Time(sec, nano) == [sec |-> sec, nano |-> nano]

ZeroTime == Time(0, 0)

\* Time.Format(time.RFC3339): the layout has no fraction of a second.
FormatRFC3339(t) == <<"T", DigitChars[t.sec]>>

\* time.Parse(time.RFC3339, value).
ParseRFC3339(value) ==
    IF Len(value) = 2 /\ value[1] = "T" /\ (\E n \in 1..Len(DigitChars) : DigitChars[n] = value[2])
    THEN [ok |-> TRUE,
          t |-> Time(CHOOSE n \in 1..Len(DigitChars) : DigitChars[n] = value[2], 0)]
    ELSE [ok |-> FALSE, t |-> ZeroTime]

\* syncedAtPattern = synced-at:\s*(.+): group 1 of the leftmost match is what
\* follows the first "synced-at:" and its whitespace, up to the end of the
\* line; p is the index the group starts at. No match, or a group that does
\* not parse, gives (time.Time{}, false).
syncedAtGroup(s, p) ==
    IF p > Len(s) THEN [ok |-> FALSE, t |-> ZeroTime]
    ELSE ParseRFC3339(TrimRight(SubSeq(s, p, SpanNotIn(s, p, {"\n"}) - 1), Space))

syncedAtPattern(s, j) ==
    IF j = 0 THEN [ok |-> FALSE, t |-> ZeroTime]
    ELSE syncedAtGroup(s, SpanIn(s, j + Len(syncedAtPrefix) - 1, Space))

ExtractSyncedAt(description) ==
    syncedAtPattern(description, IndexFrom(description, TrimRight(syncedAtPrefix, {" "}), 1))

\* strings.Cut(description, syncSeparator) at the index i of the separator.
cutBefore(description, i) ==
    IF i = 0 THEN description
    ELSE TrimRight(SubSeq(description, 1, i - 1), {"\n"})

UserDescription(description) ==
    cutBefore(description, IndexFrom(description, syncSeparator, 1))

buildFooter(linkKey, linkValue, syncTime) ==
    syncSeparator \o linkKey \o linkValue \o <<"\n">> \o syncedAtPrefix
        \o FormatRFC3339(syncTime)

SetJiraKey(description, jiraKey, syncTime) ==
    UserDescription(description) \o buildFooter(jiraKeyPrefix, jiraKey, syncTime)

SetTodoistID(description, todoistID, syncTime) ==
    UserDescription(description) \o buildFooter(todoistPrefix, todoistID, syncTime)

----------------------------------------------------------------------------
(* Text <-> ADF: src/jira/adf_test.go lines 131-184.                        *)
(* A json.RawMessage is [present, content]: present is FALSE for the nil    *)
(* (zero-length) message; content is the sequence of top-level blocks,      *)
(* each [type, texts] with texts the text nodes under the block.            *)

NilDoc == [present |-> FALSE, content |-> <<>>]

EmptyText == <<"">>

\* A variant of TextToADF that makes no paragraph of an empty line.
TextToADFNoBlanks(text) ==
    IF text = EmptyText THEN NilDoc
    ELSE [present |-> TRUE,
          content |-> [i \in 1..Len(SelectSeq(text, LAMBDA l : l # "")) |->
                         [type |-> "paragraph",
                          texts |-> <<SelectSeq(text, LAMBDA l : l # "")[i]>>]]]

TextToADF(text) ==
    IF text = EmptyText THEN NilDoc
    ELSE [present |-> TRUE,
          content |-> [i \in 1..Len(text) |->
                         [type |-> "paragraph",
                          texts |-> IF text[i] = "" THEN <<>> ELSE <<text[i]>>]]]

RECURSIVE JoinTexts(_)
JoinTexts(texts) ==
    IF texts = <<>> THEN "" ELSE Head(texts) \o JoinTexts(Tail(texts))

\* extractText of a top-level block: the non-empty texts under it, joined.
extractText(block) == JoinTexts(SelectSeq(block.texts, LAMBDA t : t # ""))

ADFToText(doc) ==
    IF ~doc.present THEN EmptyText
    ELSE IF doc.content = <<>> THEN EmptyText
    ELSE [i \in 1..Len(doc.content) |-> extractText(doc.content[i])]

----------------------------------------------------------------------------
(* Configuration: src/unnamed/part_010 lines 215-349 *)

linkLabel == "jira-sync"

JiraURL == <<"h", "t", "t", "p", ":", "/", "/", "j">>

\* cfg.StatusMap: Todoist section name -> Jira status name.
StatusMap == [s \in {"To Do", "Doing", "Done"} |->
                CASE s = "To Do" -> "To Do"
                  [] s = "Doing" -> "In Progress"
                  [] s = "Done"  -> "Done"]

JiraStatusForSection(sectionName) ==
    IF sectionName \in DOMAIN StatusMap THEN StatusMap[sectionName] ELSE sectionName

\* The linear scan over the map returns the section of an entry whose status
\* is jiraStatus; the map of this model has one such entry at most.
SectionForJiraStatus(jiraStatus) ==
    IF \E sec \in DOMAIN StatusMap : StatusMap[sec] = jiraStatus
    THEN CHOOSE sec \in DOMAIN StatusMap : StatusMap[sec] = jiraStatus
    ELSE jiraStatus

\* A variant of JiraStatusForSectionIn without fallback.
JiraStatusForSectionNoFallback(statusMap, sectionName) ==
    IF sectionName \in DOMAIN statusMap THEN statusMap[sectionName] ELSE ""

\* Config.JiraStatusForSection over any status map.
JiraStatusForSectionIn(statusMap, sectionName) ==
    IF sectionName \in DOMAIN statusMap THEN statusMap[sectionName] ELSE sectionName

\* Config.SectionForJiraStatus over any status map: the sections the scan can
\* return, one for every entry with the status (a Go map is ranged over in
\* no fixed order), or the status itself.
SectionForJiraStatusIn(statusMap, jiraStatus) ==
    IF \E sec \in DOMAIN statusMap : statusMap[sec] = jiraStatus
    THEN {sec \in DOMAIN statusMap : statusMap[sec] = jiraStatus}
    ELSE {jiraStatus}

\* The engine calls the two mappings under these names; their bodies are not
\* among the source files and follow section 4.2 of the specification.
TodoistToJiraStatus(sectionName) == JiraStatusForSection(sectionName)

JiraToTodoistStatus(jiraStatus) == SectionForJiraStatus(jiraStatus)

\* strings.EqualFold on the status names of the model: the names that differ
\* only in case from another name, with that name.
FoldTable == [s \in {"to do", "open", "in progress", "done", "closed"} |->
                CASE s = "to do" -> "To Do"
                  [] s = "open" -> "Open"
                  [] s = "in progress" -> "In Progress"
                  [] s = "done" -> "Done"
                  [] s = "closed" -> "Closed"]

Fold(s) == IF s \in DOMAIN FoldTable THEN FoldTable[s] ELSE s

EqualFold(a, b) == Fold(a) = Fold(b)

equivalentStatuses == <<{"To Do", "Open"}>>

\* A variant of statusEquivalent without the groups of equivalent statuses.
statusEqualFold(a, b) == EqualFold(a, b)

statusEquivalent(a, b) ==
    \/ EqualFold(a, b)
    \/ \E g \in 1..Len(equivalentStatuses) :
          /\ \E s \in equivalentStatuses[g] : EqualFold(a, s)
          /\ \E s \in equivalentStatuses[g] : EqualFold(b, s)

\* strings.TrimSpace on a priority id: of the ids of the model only " 1 " and
\* " " have white space.
TrimSpaceID(id) ==
    CASE id = " 1 " -> "1"
      [] id = " " -> ""
      [] OTHER -> id

\* A variant of TodoistPriority with the table upside down.
TodoistPriorityReversed(jiraPriorityID) ==
    CASE TrimSpaceID(jiraPriorityID) = "1" -> 2
      [] TrimSpaceID(jiraPriorityID) = "2" -> 3
      [] TrimSpaceID(jiraPriorityID) = "3" -> 4
      [] OTHER -> 1

\* jira.TodoistPriority
TodoistPriority(jiraPriorityID) ==
    CASE TrimSpaceID(jiraPriorityID) = "1" -> 4
      [] TrimSpaceID(jiraPriorityID) = "2" -> 3
      [] TrimSpaceID(jiraPriorityID) = "3" -> 2
      [] OTHER -> 1

----------------------------------------------------------------------------
(* The two remote systems, as the clients see them.                         *)
(*   task:  [id, content, description, due, labels, section, updated,       *)
(*           comments, origin]            src/todoist/types.go lines 19-45  *)
(*   issue: [key, summary, description, status, resolved, updated, duedate, *)
(*           comments, inSprint, priority, origin]                          *)
(*                                        src/jira/types.go lines 16-38     *)
(* section is a section id (0: the task is in no section); updated is the   *)
(* raw timestamp: a positive number is a well-formed time, BadTime one that *)
(* does not parse.  origin records what the engine created the item from    *)
(* (observation only).                                                      *)
(* During a run the engine works on m: the state of the two systems, the    *)
(* calls made so far, the summary and the failing calls of this run.        *)

BadTime == 0 - 1

\* The key Jira gives the n-th issue of the project.
KeyOf(n) == <<"D", "X", "-", DigitChars[n]>>

InitialStatus == "To Do"

\* The statuses the workflow has a transition to.
WorkflowStatuses == {"To Do", "Open", "In Progress", "Done", "Closed"}

SetMax(S) == IF S = {} THEN 0 ELSE CHOOSE x \in S : \A y \in S : y <= x

Stamps(ts, is) ==
    {ts[i].updated : i \in 1..Len(ts)} \cup {is[i].updated : i \in 1..Len(is)}

\* The time a remote system stamps on a write: later than every time so far.
Fresh(m) == SetMax(Stamps(m.tasks, m.issues) \cup {0}) + 1

TaskIdx(ts, id) ==
    IF \E i \in 1..Len(ts) : ts[i].id = id
    THEN CHOOSE i \in 1..Len(ts) : ts[i].id = id
    ELSE 0

IssueIdx(is, key) ==
    IF \E i \in 1..Len(is) : is[i].key = key
    THEN CHOOSE i \in 1..Len(is) : is[i].key = key
    ELSE 0

RemoveAt(seq, i) == SubSeq(seq, 1, i - 1) \o SubSeq(seq, i + 1, Len(seq))

\* A variant of Contains that finds nothing.
ContainsNothing(seq, x) == FALSE

Contains(seq, x) == \E i \in 1..Len(seq) : seq[i] = x

Logged(m, op, task, key, arg, ok) ==
    [m EXCEPT !.calls = Append(@, [op |-> op, task |-> task, key |-> key,
                                   arg |-> arg, ok |-> ok])]

Fails(m, op) == op \in m.fail

\* todoist.Client.UpdateTask: POST /tasks/{id} with the fields that are set.
UpdateTask(m, id, req) ==
    LET i == TaskIdx(m.tasks, id)
    IN IF Fails(m, "UpdateTask") \/ i = 0
       THEN [m |-> Logged(m, "UpdateTask", id, <<>>, "", FALSE), err |-> TRUE]
       ELSE LET old == m.tasks[i]
                new == [old EXCEPT
                          !.content = IF req.hasContent THEN req.content ELSE @,
                          !.description = IF req.hasDescription THEN req.description ELSE @,
                          !.due = IF req.hasDueDate THEN req.dueDate ELSE @,
                          !.updated = Fresh(m)]
            IN [m |-> Logged([m EXCEPT !.tasks[i] = new], "UpdateTask", id, <<>>, "", TRUE),
                err |-> FALSE]

\* todoist.Client.CloseTask: the task leaves the active tasks and is completed.
CloseTask(m, id) ==
    LET i == TaskIdx(m.tasks, id)
    IN IF Fails(m, "CloseTask") \/ i = 0
       THEN [m |-> Logged(m, "CloseTask", id, <<>>, "", FALSE), err |-> TRUE]
       ELSE [m |-> Logged([m EXCEPT !.tasks = RemoveAt(@, i),
                                    !.completed = Append(@, m.tasks[i].content)],
                          "CloseTask", id, <<>>, "", TRUE),
             err |-> FALSE]

\* todoist.Client.MoveTaskToSection
MoveTaskToSection(m, id, sectionID) ==
    LET i == TaskIdx(m.tasks, id)
    IN IF Fails(m, "MoveTaskToSection") \/ i = 0
       THEN [m |-> Logged(m, "MoveTaskToSection", id, <<>>, "", FALSE), err |-> TRUE]
       ELSE [m |-> Logged([m EXCEPT !.tasks[i].section = sectionID,
                                    !.tasks[i].updated = Fresh(m)],
                          "MoveTaskToSection", id, <<>>, m.sections[sectionID], TRUE),
             err |-> FALSE]

\* todoist.Client.CreateSection: the new section's id is returned in id.
CreateSection(m, name) ==
    IF Fails(m, "CreateSection")
    THEN [m |-> Logged(m, "CreateSection", 0, <<>>, name, FALSE), err |-> TRUE, id |-> 0]
    ELSE [m |-> Logged([m EXCEPT !.sections = Append(@, name)],
                       "CreateSection", 0, <<>>, name, TRUE),
          err |-> FALSE, id |-> Len(m.sections) + 1]

\* todoist.Client.CreateTask: the new task's id is returned in id.
CreateTask(m, req) ==
    IF Fails(m, "CreateTask")
    THEN [m |-> Logged(m, "CreateTask", 0, req.origin, "", FALSE), err |-> TRUE, id |-> 0]
    ELSE LET new == [id |-> m.nextTaskID, content |-> req.content,
                     description |-> req.description, due |-> req.dueDate,
                     labels |-> req.labels, section |-> req.sectionID,
                     updated |-> Fresh(m), comments |-> <<>>, origin |-> req.origin]
         IN [m |-> Logged([m EXCEPT !.tasks = Append(@, new), !.nextTaskID = @ + 1],
                          "CreateTask", m.nextTaskID, req.origin, "", TRUE),
             err |-> FALSE, id |-> m.nextTaskID]

\* A variant of GetComments that returns no comment.
GetCommentsNone(m, id) == [m |-> m, err |-> FALSE, comments |-> <<>>]

\* todoist.Client.GetComments
GetComments(m, id) ==
    LET i == TaskIdx(m.tasks, id)
    IN IF Fails(m, "GetComments") \/ i = 0
       THEN [m |-> Logged(m, "GetComments", id, <<>>, "", FALSE), err |-> TRUE,
             comments |-> <<>>]
       ELSE [m |-> m, err |-> FALSE, comments |-> m.tasks[i].comments]

\* todoist.Client.CreateComment
CreateComment(m, id, content) ==
    LET i == TaskIdx(m.tasks, id)
    IN IF Fails(m, "CreateComment") \/ i = 0
       THEN [m |-> Logged(m, "CreateComment", id, <<>>, "", FALSE), err |-> TRUE]
       ELSE [m |-> Logged([m EXCEPT !.tasks[i].comments = Append(@, content)],
                          "CreateComment", id, <<>>, "", TRUE),
             err |-> FALSE]

\* jira.Client.CreateIssue: POST /issue; the new issue's key is returned in key.
\* The new issue is in the workflow's initial status and in no sprint.
CreateIssue(m, fields, origin) ==
    IF Fails(m, "CreateIssue")
    THEN [m |-> Logged(m, "CreateIssue", origin, <<>>, "", FALSE), err |-> TRUE, key |-> <<>>]
    ELSE LET key == KeyOf(Len(m.issues) + 1)
             new == [key |-> key, summary |-> fields.summary,
                     description |-> fields.description, status |-> InitialStatus,
                     resolved |-> FALSE, updated |-> Fresh(m), duedate |-> "",
                     comments |-> <<>>, inSprint |-> FALSE, priority |-> "",
                     origin |-> origin]
         IN [m |-> Logged([m EXCEPT !.issues = Append(@, new)],
                          "CreateIssue", origin, key, "", TRUE),
             err |-> FALSE, key |-> key]

\* jira.Client.UpdateIssue: PUT /issue/{key}; summary, description and duedate
\* are `omitempty` fields of IssueFields, so an empty one is not sent.
UpdateIssue(m, key, fields) ==
    LET i == IssueIdx(m.issues, key)
    IN IF Fails(m, "UpdateIssue") \/ i = 0
       THEN [m |-> Logged(m, "UpdateIssue", 0, key, "", FALSE), err |-> TRUE]
       ELSE LET old == m.issues[i]
                new == [old EXCEPT
                          !.summary = IF fields.summary # <<>> THEN fields.summary ELSE @,
                          !.description = IF fields.description.present
                                          THEN fields.description ELSE @,
                          !.duedate = IF fields.duedate # "" THEN fields.duedate ELSE @,
                          !.updated = Fresh(m)]
            IN [m |-> Logged([m EXCEPT !.issues[i] = new], "UpdateIssue", 0, key, "", TRUE),
                err |-> FALSE]

\* jira.Client.DoTransition: the transition whose name or target status equals
\* targetStatus (EqualFold) is posted; "Closed" also sets the resolution.
DoTransition(m, issueKey, targetStatus) ==
    LET i == IssueIdx(m.issues, issueKey)
        found == {s \in WorkflowStatuses : EqualFold(s, targetStatus)}
    IN IF Fails(m, "DoTransition") \/ i = 0 \/ found = {}
       THEN [m |-> Logged(m, "DoTransition", 0, issueKey, targetStatus, FALSE), err |-> TRUE]
       ELSE LET to == CHOOSE s \in found : TRUE
            IN [m |-> Logged([m EXCEPT
                                !.issues[i].status = to,
                                !.issues[i].resolved =
                                    IF EqualFold(targetStatus, "Closed") THEN TRUE ELSE @,
                                !.issues[i].updated = Fresh(m)],
                             "DoTransition", 0, issueKey, targetStatus, TRUE),
                err |-> FALSE]

----------------------------------------------------------------------------
(* The engine: src/syncer/engine.go *)

Act(key, prefix, summary) == [jiraKey |-> key, prefix |-> prefix, summary |-> summary]

EmptySummary ==
    [createdJira |-> <<>>, createdTodoist |-> <<>>, updatedToTodoist |-> <<>>,
     updatedToJira |-> <<>>, completedTodoist |-> <<>>, resolvedJira |-> <<>>,
     errors |-> <<>>]

AddSummary(m, bucket, act) == [m EXCEPT !.summary[bucket] = Append(@, act)]

Handled(m, what, task, key, err) ==
    [m EXCEPT !.handled = Append(@, [what |-> what, task |-> task, key |-> key,
                                     err |-> err])]

\* buildSectionMap and the two lookups of sectionMap; the engine adds every
\* section it creates to the map, so the map is read off the sections of m.
secByID(m, id) == IF id \in 1..Len(m.sections) THEN m.sections[id] ELSE ""

\* A variant of secByName for a map that is not told of the sections the run
\* creates: it knows the first two sections, those of the start.
secByNameFetched(m, name) == SetMax({i \in 1..2 : m.sections[i] = name})

secByName(m, name) == SetMax({i \in 1..Len(m.sections) : m.sections[i] = name})

\* The content of the Todoist comment made from a Jira comment: the prefix
\* line commentFromJiraPrefix (its two backquotes are left out: a string of
\* this module cannot hold one), then the lines of the body.
syncedContent(jc) ==
    <<"[From Jira " \o jc.author \o "]">> \o ADFToText(jc.body)

\* One pass of the loop of syncCommentsToTodoist that creates a comment:
\* n counts the comments created, bad records a failure.
commentCreated(r, c) ==
    [m |-> c.m, n |-> IF c.err THEN r.n ELSE r.n + 1, bad |-> r.bad \/ c.err]

\* The loop of syncCommentsToTodoist over the issue's comments k..; existing
\* is the list read before the loop.
RECURSIVE commentLoop(_, _, _, _, _)
commentLoop(r, cs, k, existing, taskID) ==
    IF k > Len(cs) THEN r
    ELSE IF Contains(existing, syncedContent(cs[k]))
         THEN commentLoop(r, cs, k + 1, existing, taskID)
         ELSE commentLoop(commentCreated(r, CreateComment(r.m, taskID,
                                                            syncedContent(cs[k]))),
                          cs, k + 1, existing, taskID)

\* Observation: one propagation of an issue's comments to a task.
Propagated(m, task, key, created, clean) ==
    [m EXCEPT !.props = Append(@, [task |-> task, key |-> key, created |-> created,
                                   clean |-> clean])]

commentsLooped(r, issue, todoistTaskID) ==
    [m |-> Propagated(r.m, todoistTaskID, issue.key, r.n, ~r.bad), err |-> FALSE]

commentsRead(g, issue, todoistTaskID) ==
    IF g.err
    THEN [m |-> Propagated(g.m, todoistTaskID, issue.key, 0, FALSE), err |-> TRUE]
    ELSE commentsLooped(commentLoop([m |-> g.m, n |-> 0, bad |-> FALSE],
                                    issue.comments, 1, g.comments, todoistTaskID),
                        issue, todoistTaskID)

syncCommentsToTodoist(m, issue, todoistTaskID) ==
    commentsRead(GetComments(m, todoistTaskID), issue, todoistTaskID)

\* createJiraFromTodoist after the link was written to the task (u).
\* A variant of linkWritten that returns the error of the transition.
linkWrittenOrFail(u, key, jiraStatus) ==
    IF u.err THEN [m |-> u.m, err |-> TRUE]
    ELSE IF jiraStatus # "" /\ ~statusEquivalent(jiraStatus, "Open")
         THEN DoTransition(u.m, key, jiraStatus)
         ELSE [m |-> u.m, err |-> FALSE]

linkWritten(u, key, jiraStatus) ==
    IF u.err THEN [m |-> u.m, err |-> TRUE]
    ELSE IF jiraStatus # "" /\ ~statusEquivalent(jiraStatus, "Open")
         THEN [m |-> DoTransition(u.m, key, jiraStatus).m, err |-> FALSE]
         ELSE [m |-> u.m, err |-> FALSE]

\* createJiraFromTodoist after the issue was created (c).
issueCreated(c, task, jiraStatus) ==
    IF c.err THEN [m |-> c.m, err |-> TRUE]
    ELSE linkWritten(
             UpdateTask(AddSummary(c.m, "createdJira", Act(c.key, "", task.content)),
                        task.id,
                        [hasContent |-> TRUE,
                         content |-> PrependJiraLink(task.content, c.key, JiraURL),
                         hasDescription |-> FALSE, description |-> EmptyText,
                         hasDueDate |-> FALSE, dueDate |-> ""]),
             c.key, jiraStatus)

createJiraFromTodoist(m, task) ==
    IF linkLabel \notin task.labels THEN [m |-> m, err |-> FALSE]
    ELSE issueCreated(CreateIssue(m, [summary |-> task.content,
                                      description |-> TextToADF(task.description)],
                                  task.id),
                      task, TodoistToJiraStatus(secByID(m, task.section)))

\* createTodoistFromJira after the task was created (c).
taskCreated(c, issue) ==
    IF c.err THEN [m |-> c.m, err |-> TRUE]
    ELSE [m |-> syncCommentsToTodoist(
                    AddSummary(c.m, "createdTodoist", Act(issue.key, "", issue.summary)),
                    issue, c.id).m,
          err |-> FALSE]

\* The part of createTodoistFromJira that follows the section lookup.
createTodoistTask(m, issue, sectionID) ==
    taskCreated(CreateTask(m, [content |-> PrependJiraLink(issue.summary, issue.key, JiraURL),
                               description |-> ADFToText(issue.description),
                               sectionID |-> sectionID,
                               labels |-> {linkLabel},
                               priority |-> TodoistPriority(issue.priority),
                               dueDate |-> issue.duedate,
                               origin |-> issue.key]),
                issue)

sectionCreated(sec, issue) ==
    IF sec.err THEN [m |-> sec.m, err |-> TRUE]
    ELSE createTodoistTask(sec.m, issue, sec.id)

sectionLooked(m, issue, sectionName, sectionID) ==
    IF sectionID = 0 /\ sectionName # ""
    THEN sectionCreated(CreateSection(m, sectionName), issue)
    ELSE createTodoistTask(m, issue, sectionID)

createTodoistFromJira(m, issue) ==
    IF issue.resolved THEN [m |-> m, err |-> FALSE]
    ELSE sectionLooked(m, issue, JiraToTodoistStatus(issue.status),
                       secByName(m, JiraToTodoistStatus(issue.status)))

\* The part of pushJiraToTodoist that follows the move to the target section.
pushComments(m, task, issue) ==
    [m |-> syncCommentsToTodoist(m, issue, task.id).m, err |-> FALSE]

taskMoved(mv, task, issue) ==
    IF mv.err THEN [m |-> mv.m, err |-> TRUE]
    ELSE pushComments(mv.m, task, issue)

targetCreated(sec, task, issue) ==
    IF sec.err THEN [m |-> sec.m, err |-> TRUE]
    ELSE taskMoved(MoveTaskToSection(sec.m, task.id, sec.id), task, issue)

targetLooked(m, task, issue, targetSection, targetSectionID) ==
    IF targetSectionID = 0
    THEN targetCreated(CreateSection(m, targetSection), task, issue)
    ELSE taskMoved(MoveTaskToSection(m, task.id, targetSectionID), task, issue)

moveToTarget(m, task, issue, targetSection) ==
    IF targetSection # secByID(m, task.section)
    THEN targetLooked(m, task, issue, targetSection, secByName(m, targetSection))
    ELSE pushComments(m, task, issue)

\* pushJiraToTodoist after the task was updated (u).
taskUpdated(u, task, issue) ==
    IF u.err THEN [m |-> u.m, err |-> TRUE]
    ELSE moveToTarget(u.m, task, issue, JiraToTodoistStatus(issue.status))

pushJiraToTodoist(m, task, issue) ==
    taskUpdated(UpdateTask(m, task.id,
                           [hasContent |-> TRUE,
                            content |-> PrependJiraLink(issue.summary, issue.key, JiraURL),
                            hasDescription |-> TRUE,
                            description |-> ADFToText(issue.description),
                            hasDueDate |-> issue.duedate # "",
                            dueDate |-> issue.duedate]),
                task, issue)

transitionIssue(m, issue, sectionName) ==
    IF sectionName # "" /\ ~statusEquivalent(TodoistToJiraStatus(sectionName), issue.status)
    THEN [m |-> DoTransition(m, issue.key, TodoistToJiraStatus(sectionName)).m,
          err |-> FALSE]
    ELSE [m |-> m, err |-> FALSE]

\* pushTodoistToJira after the issue was updated (u).
issueUpdated(u, task, issue) ==
    IF u.err THEN [m |-> u.m, err |-> TRUE]
    ELSE transitionIssue(u.m, issue, secByID(u.m, task.section))

pushTodoistToJira(m, task, issue) ==
    issueUpdated(UpdateIssue(m, issue.key,
                             [summary |-> StripJiraPrefix(task.content),
                              description |-> TextToADF(task.description),
                              duedate |-> task.due]),
                 task, issue)

\* time.Parse of an updated timestamp: the zero time when it does not parse.
ParseTime(raw) == [err |-> raw <= 0, t |-> IF raw <= 0 THEN 0 ELSE raw]

\* A variant of jiraIsNewer in which a tie goes to the issue.
jiraNotOlder(task, issue) ==
    ~ParseTime(task.updated).err
    /\ ParseTime(issue.updated).t >= ParseTime(task.updated).t

\* The direction syncLinkedPair chooses for an unresolved pair.
jiraIsNewer(task, issue) ==
    LET jiraUpdated == ParseTime(issue.updated)
        todoistUpdated == ParseTime(task.updated)
    IN ~todoistUpdated.err /\ jiraUpdated.t > todoistUpdated.t

\* A variant of syncLinkedPair that does not look at the resolution.
syncLinkedPairByTime(m, task, issue) ==
    IF jiraIsNewer(task, issue)
    THEN pushJiraToTodoist(
             AddSummary(m, "updatedToTodoist", Act(issue.key, "", issue.summary)),
             task, issue)
    ELSE pushTodoistToJira(
             AddSummary(m, "updatedToJira", Act(issue.key, "", issue.summary)),
             task, issue)

syncLinkedPair(m, task, issue) ==
    IF issue.resolved
    THEN CloseTask(AddSummary(m, "completedTodoist", Act(issue.key, "", issue.summary)),
                   task.id)
    ELSE IF jiraIsNewer(task, issue)
         THEN pushJiraToTodoist(
                  AddSummary(m, "updatedToTodoist", Act(issue.key, "", issue.summary)),
                  task, issue)
         ELSE pushTodoistToJira(
                  AddSummary(m, "updatedToJira", Act(issue.key, "", issue.summary)),
                  task, issue)

issueClosed(t, issue) ==
    IF t.err
    THEN AddSummary(t.m, "errors", Act(issue.key, "resolve: ", issue.summary))
    ELSE AddSummary(t.m, "resolvedJira", Act(issue.key, "", issue.summary))

\* A variant of resolveJiraIssue that does not look at the resolution.
resolveJiraIssueAlways(m, issue) == issueClosed(DoTransition(m, issue.key, "Closed"), issue)

resolveJiraIssue(m, issue) ==
    IF issue.resolved THEN m
    ELSE issueClosed(DoTransition(m, issue.key, "Closed"), issue)

----------------------------------------------------------------------------
(* Engine.Run: src/syncer/engine.go lines 125-286 *)

FetchCalls == {"FindProjectByName", "GetSections", "GetTasks", "SearchIssues"}

MutatingCalls == {"CreateIssue", "UpdateIssue", "DoTransition", "CreateTask",
                  "UpdateTask", "CloseTask", "MoveTaskToSection", "CreateSection",
                  "CreateComment"}

AllCalls == FetchCalls \cup MutatingCalls \cup {"GetCompletedTasks", "GetComments"}

\* A variant of fetchFailed that ignores the error of the Jira goroutine.
fetchFailedTodoist(fail) == fail \cap {"FindProjectByName", "GetSections", "GetTasks"} # {}

\* eg.Wait() returns an error: one of the two fetch goroutines failed.
fetchFailed(fail) == fail \cap FetchCalls # {}

\* completedTodoistKeys: nil (no key) when the completed tasks were not fetched.
completedTodoistKeys(done, fail) ==
    IF "GetCompletedTasks" \in fail THEN {}
    ELSE {ExtractJiraKey(done[i]) : i \in 1..Len(done)} \ {<<>>}

\* The loop of Run over the tasks: the key each task's content holds.
taskKeys(ts) == [i \in 1..Len(ts) |-> ExtractJiraKey(ts[i].content)]

\* The keys of todoistByJiraKey, and the task the map holds for a key (a later
\* task with the same key replaces an earlier one).
linkedKeys(keys) == {keys[i] : i \in 1..Len(keys)} \ {<<>>}

todoistByJiraKey(ts, keys, key) == ts[SetMax({i \in 1..Len(ts) : keys[i] = key})]

\* A variant of unlinkedTodoistTasks that does not look at the labels.
RECURSIVE unlinkedTodoistTasksAll(_, _, _)
unlinkedTodoistTasksAll(ts, keys, k) ==
    IF k > Len(ts) THEN <<>>
    ELSE IF keys[k] = <<>>
         THEN <<ts[k]>> \o unlinkedTodoistTasksAll(ts, keys, k + 1)
         ELSE unlinkedTodoistTasksAll(ts, keys, k + 1)

RECURSIVE unlinkedTodoistTasks(_, _, _)
unlinkedTodoistTasks(ts, keys, k) ==
    IF k > Len(ts) THEN <<>>
    ELSE IF keys[k] = <<>> /\ linkLabel \in ts[k].labels
         THEN <<ts[k]>> \o unlinkedTodoistTasks(ts, keys, k + 1)
         ELSE unlinkedTodoistTasks(ts, keys, k + 1)

\* A variant of issueClass that does not look for a linked task.
issueClassUnlinked(issue, linked, doneKeys) ==
    IF issue.key \in doneKeys THEN "resolve"
    ELSE IF issue.resolved THEN "skip"
    ELSE IF ~issue.inSprint THEN "skip"
    ELSE "unlinked"

\* How the loop over the issues classifies one issue.
issueClass(issue, linked, doneKeys) ==
    IF issue.key \in linked THEN "linked"
    ELSE IF issue.key \in doneKeys THEN "resolve"
    ELSE IF issue.resolved THEN "skip"
    ELSE IF ~issue.inSprint THEN "skip"
    ELSE "unlinked"

unlinkedJiraIssues(is, linked, doneKeys) ==
    SelectSeq(is, LAMBDA i : issueClass(i, linked, doneKeys) = "unlinked")

RECURSIVE resolveLoop(_, _, _, _, _)
resolveLoop(m, is, linked, doneKeys, k) ==
    IF k > Len(is) THEN m
    ELSE IF issueClass(is[k], linked, doneKeys) = "resolve"
         THEN resolveLoop(Handled(resolveJiraIssue(m, is[k]), "resolve", 0, is[k].key, FALSE),
                          is, linked, doneKeys, k + 1)
         ELSE resolveLoop(m, is, linked, doneKeys, k + 1)

\* A variant of Recorded that logs the error and leaves the summary alone.
RecordedInLogOnly(r, what, task, key, act) == Handled(r.m, what, task, key, r.err)

\* The body of a loop of Run after the item's handler returned r: the error
\* is recorded in the summary.
Recorded(r, what, task, key, act) ==
    Handled(IF r.err THEN AddSummary(r.m, "errors", act) ELSE r.m, what, task, key, r.err)

RECURSIVE createJiraLoop(_, _, _)
createJiraLoop(m, unlinked, k) ==
    IF k > Len(unlinked) THEN m
    ELSE createJiraLoop(
             Recorded(createJiraFromTodoist(m, unlinked[k]), "createJira", unlinked[k].id,
                      <<>>, Act(<<>>, "create Jira from: ", unlinked[k].content)),
             unlinked, k + 1)

RECURSIVE createTodoistLoop(_, _, _)
createTodoistLoop(m, unlinked, k) ==
    IF k > Len(unlinked) THEN m
    ELSE createTodoistLoop(
             Recorded(createTodoistFromJira(m, unlinked[k]), "createTodoist", 0,
                      unlinked[k].key,
                      Act(unlinked[k].key, "create Todoist from: ", unlinked[k].summary)),
             unlinked, k + 1)

syncPair(m, task, issue) ==
    Recorded(syncLinkedPair(m, task, issue), "sync", task.id, issue.key,
             Act(issue.key, "sync: ", issue.summary))

\* A variant of linkedLoop that records an error for a key without an issue.
RECURSIVE linkedLoopMissingIsError(_, _, _, _, _, _)
linkedLoopMissingIsError(m, order, ts, keys, is, k) ==
    IF k > Len(order) THEN m
    ELSE IF IssueIdx(is, order[k]) = 0
         THEN linkedLoopMissingIsError(
                  AddSummary(m, "errors", Act(order[k], "sync: ", <<>>)),
                  order, ts, keys, is, k + 1)
         ELSE linkedLoopMissingIsError(
                  syncPair(m, todoistByJiraKey(ts, keys, order[k]),
                           is[IssueIdx(is, order[k])]),
                  order, ts, keys, is, k + 1)

\* The loop over todoistByJiraKey, in the order the map iteration gives.
RECURSIVE linkedLoop(_, _, _, _, _, _)
linkedLoop(m, order, ts, keys, is, k) ==
    IF k > Len(order) THEN m
    ELSE IF IssueIdx(is, order[k]) = 0 THEN linkedLoop(m, order, ts, keys, is, k + 1)
         ELSE linkedLoop(syncPair(m, todoistByJiraKey(ts, keys, order[k]),
                                  is[IssueIdx(is, order[k])]),
                         order, ts, keys, is, k + 1)

\* Run after the fetch: the loop over the issues, the two creation loops and
\* the loop over the linked pairs.
RunLoops(m, order, ts, keys, is, doneKeys) ==
    linkedLoop(
        createTodoistLoop(
            createJiraLoop(resolveLoop(m, is, linkedKeys(keys), doneKeys, 1),
                           unlinkedTodoistTasks(ts, keys, 1), 1),
            unlinkedJiraIssues(is, linkedKeys(keys), doneKeys), 1),
        order, ts, keys, is, 1)

\* The state of the two systems after the run that starts in m, with the
\* calls of m.fail failing and the linked pairs visited in the given order.
RunFrom(m, order) ==
    IF fetchFailed(m.fail) THEN [m |-> m, err |-> TRUE]
    ELSE [m |-> RunLoops(m, order, m.tasks, taskKeys(m.tasks), m.issues,
                         completedTodoistKeys(m.completed, m.fail)),
          err |-> FALSE]

----------------------------------------------------------------------------
(* One run of the engine as an action *)

NoRun ==
    [ran |-> FALSE, err |-> FALSE, calls |-> <<>>, summary |-> EmptySummary,
     handled |-> <<>>, props |-> <<>>, fail |-> {},
     pre |-> [tasks |-> <<>>, issues |-> <<>>, sections |-> <<>>, completed |-> <<>>]]

\* No run is between its fetch and its loops.
NoSnap == [taken |-> FALSE, fail |-> {}, tasks |-> <<>>, issues |-> <<>>, completed |-> <<>>]

\* Timestamps are only compared: they are kept as their ranks.
Rank(x, S) == IF x <= 0 THEN x ELSE Cardinality({y \in S : y > 0 /\ y <= x})

NormalTasks(ts, is) ==
    [i \in 1..Len(ts) |-> [ts[i] EXCEPT !.updated = Rank(@, Stamps(ts, is))]]

NormalIssues(ts, is) ==
    [i \in 1..Len(is) |-> [is[i] EXCEPT !.updated = Rank(@, Stamps(ts, is))]]

Perms(S) ==
    {f \in [1..Cardinality(S) -> S] : \A x \in S : \E i \in 1..Cardinality(S) : f[i] = x}

RECURSIVE FailSets(_)
FailSets(n) ==
    IF n = 0 THEN {{}}
    ELSE LET P == FailSets(n - 1)
         IN P \cup {F \cup {x} : F \in P, x \in AllCalls}

TaskIDs(ts) == {ts[i].id : i \in 1..Len(ts)}

\* The tasks whose comments are known to be propagated, after a run.
Synced(m) ==
    ((synced \ {m.props[i].task : i \in {j \in 1..Len(m.props) : ~m.props[j].clean}})
        \cup {m.props[i].task : i \in {j \in 1..Len(m.props) : m.props[j].clean}})
    \cap TaskIDs(m.tasks)

Start(fail) ==
    [tasks |-> tasks, completed |-> completed, sections |-> sections,
     issues |-> issues, nextTaskID |-> nextTaskID, calls |-> <<>>,
     summary |-> EmptySummary, handled |-> <<>>, props |-> <<>>, fail |-> fail]

\* The run returned err and left the two systems as m has them.
Ran(m, err) ==
    /\ Len(m.tasks) <= MaxTasks
    /\ Len(m.issues) <= MaxIssues
    /\ tasks' = NormalTasks(m.tasks, m.issues)
    /\ issues' = NormalIssues(m.tasks, m.issues)
    /\ completed' = m.completed
    /\ sections' = m.sections
    /\ nextTaskID' = m.nextTaskID
    /\ synced' = Synced(m)
    /\ last' = [ran |-> TRUE, err |-> err, calls |-> m.calls,
                summary |-> m.summary, handled |-> m.handled,
                props |-> [i \in 1..Len(m.props) |->
                             [task |-> m.props[i].task, key |-> m.props[i].key,
                              created |-> m.props[i].created,
                              clean |-> m.props[i].clean,
                              again |-> m.props[i].task \in synced]],
                fail |-> m.fail,
                pre |-> [tasks |-> tasks, issues |-> issues, sections |-> sections,
                         completed |-> completed]]
    /\ edit' = [edit EXCEPT !.cycles = IF @ < 2 THEN @ + 1 ELSE @,
                            !.clean = @ /\ m.fail = {}]
    /\ failed' = IF m.fail # {} THEN failed + 1 ELSE failed
    /\ tick' = ~tick
    /\ snap' = NoSnap
    /\ UNCHANGED <<edits, codec, calc, watch>>

Returned(r) == Ran(r.m, r.err)

Run(fail, order) == Returned(RunFrom(Start(fail), order))

\* The sets of calls that may fail in the next run.
Failures == IF failed < MaxFailedRuns THEN FailSets(MaxFail) ELSE {{}}

Cycle == \E fail \in Failures : \E order \in Perms(linkedKeys(taskKeys(tasks))) : Run(fail, order)

CleanCycle == \E order \in Perms(linkedKeys(taskKeys(tasks))) : Run({}, order)

----------------------------------------------------------------------------
(* The users of the two systems *)

Titles == {<<"a">>, <<"b">>}
Texts == {EmptyText, <<"x">>, <<"y">>}
Dues == {"", "d1", "d2"}
HeadingDoc == [present |-> TRUE,
               content |-> <<[type |-> "heading", texts |-> <<"T">>],
                             [type |-> "paragraph", texts |-> <<"x", "y">>]>>]
Docs == {NilDoc, TextToADF(<<"x">>), HeadingDoc}
Comment1 == [author |-> "Ann", body |-> TextToADF(<<"hi">>)]

WorldNow == [tasks |-> tasks, issues |-> issues]

Touched(new, i) ==
    /\ tasks' = NormalTasks([new EXCEPT ![i].updated = Fresh(WorldNow)], issues)
    /\ issues' = NormalIssues([new EXCEPT ![i].updated = Fresh(WorldNow)], issues)

TouchedIssue(new, i) ==
    /\ tasks' = NormalTasks(tasks, [new EXCEPT ![i].updated = Fresh(WorldNow)])
    /\ issues' = NormalIssues(tasks, [new EXCEPT ![i].updated = Fresh(WorldNow)])

UserStep ==
    /\ edits < MaxEdits
    /\ edits' = edits + 1
    /\ last' = NoRun
    /\ UNCHANGED <<failed, tick, codec, calc, watch, snap>>

NoEdit ==
    [side |-> "none", task |-> 0, key |-> <<>>, field |-> "", old |-> "", new |-> "",
     paired |-> FALSE, prior |-> FALSE, cycles |-> 0, clean |-> TRUE]

\* Whether the task t has an unresolved issue as its counterpart.
Paired(t) ==
    LET i == IssueIdx(issues, ExtractJiraKey(t.content))
    IN i # 0 /\ ~issues[i].resolved

PairedIssue(is) ==
    /\ ~is.resolved
    /\ \E i \in 1..Len(tasks) : ExtractJiraKey(tasks[i].content) = is.key

EditedTask(t, field, old, new) ==
    edit' = [side |-> "task", task |-> t.id, key |-> ExtractJiraKey(t.content),
             field |-> field, old |-> old, new |-> new, paired |-> Paired(t),
             prior |-> last.ran /\ last.fail = {}, cycles |-> 0, clean |-> TRUE]

EditedIssue(is, field, old, new) ==
    edit' = [side |-> "issue", task |-> 0, key |-> is.key,
             field |-> field, old |-> old, new |-> new, paired |-> PairedIssue(is),
             prior |-> last.ran /\ last.fail = {}, cycles |-> 0, clean |-> TRUE]

\* A user edits the title, description, due date or section of a task.
UserEditTask ==
    /\ UserStep
    /\ \E i \in 1..Len(tasks) :
         LET t == tasks[i]
             key == ExtractJiraKey(t.content)
         IN \/ \E title \in Titles :
                 /\ title # StripJiraPrefix(t.content)
                 /\ EditedTask(t, "title", StripJiraPrefix(t.content), title)
                 /\ Touched([tasks EXCEPT ![i].content =
                               IF key = <<>> THEN title
                               ELSE PrependJiraLink(title, key, JiraURL)], i)
            \/ \E d \in Texts :
                 /\ d # t.description
                 /\ EditedTask(t, "description", t.description, d)
                 /\ Touched([tasks EXCEPT ![i].description = d], i)
            \/ \E d \in Dues :
                 /\ d # t.due
                 /\ EditedTask(t, "due", t.due, d)
                 /\ Touched([tasks EXCEPT ![i].due = d], i)
            \/ \E sec \in 0..Len(sections) :
                 /\ sec # t.section
                 /\ EditedTask(t, "status", secByID([sections |-> sections], t.section),
                               secByID([sections |-> sections], sec))
                 /\ Touched([tasks EXCEPT ![i].section = sec], i)
    /\ UNCHANGED <<completed, sections, nextTaskID, synced>>

\* A user edits the summary, description, due date or status of an issue, or
\* resolves it.
UserEditIssue ==
    /\ UserStep
    /\ \E i \in 1..Len(issues) :
         LET is == issues[i]
         IN \/ \E title \in Titles :
                 /\ title # is.summary
                 /\ EditedIssue(is, "title", is.summary, title)
                 /\ TouchedIssue([issues EXCEPT ![i].summary = title], i)
            \/ \E d \in Docs :
                 /\ d # is.description
                 /\ EditedIssue(is, "description", is.description, d)
                 /\ TouchedIssue([issues EXCEPT ![i].description = d], i)
            \/ \E d \in Dues :
                 /\ d # is.duedate
                 /\ EditedIssue(is, "due", is.duedate, d)
                 /\ TouchedIssue([issues EXCEPT ![i].duedate = d], i)
            \/ \E st \in WorkflowStatuses \ {"Closed"} :
                 /\ st # is.status
                 /\ ~is.resolved
                 /\ EditedIssue(is, "status", is.status, st)
                 /\ TouchedIssue([issues EXCEPT ![i].status = st], i)
            \/ /\ ~is.resolved
               /\ EditedIssue(is, "resolution", "", "Done")
               /\ TouchedIssue([issues EXCEPT ![i].status = "Done",
                                              ![i].resolved = TRUE], i)
    /\ UNCHANGED <<completed, sections, nextTaskID, synced>>

\* A user completes a task.
UserCompleteTask ==
    /\ UserStep
    /\ \E i \in 1..Len(tasks) :
         /\ tasks' = NormalTasks(RemoveAt(tasks, i), issues)
         /\ issues' = NormalIssues(RemoveAt(tasks, i), issues)
         /\ completed' = Append(completed, tasks[i].content)
         /\ synced' = synced \ {tasks[i].id}
    /\ edit' = [NoEdit EXCEPT !.side = "complete"]
    /\ UNCHANGED <<sections, nextTaskID>>

\* A user adds a comment to a task or to an issue.
UserComment ==
    /\ UserStep
    /\ synced' = {}
    /\ \/ \E i \in 1..Len(tasks) :
            /\ tasks' = [tasks EXCEPT ![i].comments = Append(@, <<"note">>)]
            /\ UNCHANGED issues
       \/ \E i \in 1..Len(issues) :
            /\ TouchedIssue([issues EXCEPT ![i].comments = Append(@, Comment1)], i)
    /\ edit' = [NoEdit EXCEPT !.side = "comment"]
    /\ UNCHANGED <<completed, sections, nextTaskID>>

----------------------------------------------------------------------------
(* Initial states *)

Key1 == KeyOf(1)
Key2 == KeyOf(2)

InitSections == <<"To Do", "Doing">>

NewTask(id, content, description, due, labels, section, updated) ==
    [id |-> id, content |-> content, description |-> description, due |-> due,
     labels |-> labels, section |-> section, updated |-> updated,
     comments |-> <<>>, origin |-> <<>>]

NewIssue(key, summary, description, status, resolved, updated, duedate, comments, inSprint) ==
    [key |-> key, summary |-> summary, description |-> description, status |-> status,
     resolved |-> resolved, updated |-> updated, duedate |-> duedate,
     comments |-> comments, inSprint |-> inSprint, priority |-> "2", origin |-> 0]

\* The pairs of raw timestamps (task, issue) of a linked pair.
StampPairs == {<<1, 1>>, <<1, 2>>, <<2, 1>>, <<BadTime, 1>>, <<1, BadTime>>,
               <<BadTime, BadTime>>}

\* A task linked to the issue Key1, and that issue: every combination of the
\* fields that reconciliation reads.
PairWorlds ==
    {[tasks |-> <<NewTask(1, PrependJiraLink(<<"a">>, Key1, JiraURL), d, due,
                          {linkLabel}, sec, st[1])>>,
      issues |-> <<NewIssue(Key1, sum, doc, status, res, st[2], jdue, <<Comment1>>, TRUE)>>,
      completed |-> <<>>] :
        d \in {EmptyText, <<"x">>}, due \in {"", "d1"}, sec \in {0, 1, 2},
        st \in StampPairs, sum \in {<<"a">>, <<"b">>},
        doc \in {NilDoc, TextToADF(<<"x">>), HeadingDoc},
        status \in {"Open", "In Progress"}, res \in BOOLEAN, jdue \in {"", "d1"}}

UnlinkedTask(id, sec) ==
    NewTask(id, <<"a">>, <<"x">>, "d1", {linkLabel}, sec, 1)

IgnoredTask(id) == NewTask(id, <<"g">>, EmptyText, "", {}, 0, 1)

LinkedTask(id, key, updated) ==
    NewTask(id, PrependJiraLink(<<"a">>, key, JiraURL), <<"x">>, "d1", {linkLabel}, 2, updated)

LinkedIssue(key, resolved, updated) ==
    NewIssue(key, <<"a">>, TextToADF(<<"x">>), IF resolved THEN "Done" ELSE "In Progress",
             resolved, updated, "d1", <<Comment1>>, TRUE)

UnlinkedIssue(key, status) ==
    NewIssue(key, <<"b">>, HeadingDoc, status, FALSE, 1, "d2", <<Comment1>>, TRUE)

Worlds ==
    {[tasks |-> <<UnlinkedTask(1, sec)>>, issues |-> <<>>, completed |-> <<>>] :
        sec \in {0, 1, 2}}
    \cup
    {[tasks |-> <<>>, issues |-> <<UnlinkedIssue(Key1, status)>>, completed |-> <<>>] :
        status \in {"To Do", "Open", "In Progress"}}
    \cup
    {[tasks |-> <<LinkedTask(1, Key1, 1)>>,
      issues |-> <<LinkedIssue(Key1, res, 2), UnlinkedIssue(Key2, "To Do")>>,
      completed |-> <<>>] : res \in BOOLEAN}
    \cup
    {[tasks |-> <<LinkedTask(1, Key1, 1), UnlinkedTask(2, 1)>>,
      issues |-> <<LinkedIssue(Key1, FALSE, 2)>>,
      completed |-> <<>>]}
    \cup
    {[tasks |-> <<IgnoredTask(1), LinkedTask(2, Key1, st[1])>>,
      issues |-> <<LinkedIssue(Key1, FALSE, st[2])>>,
      completed |-> <<>>] : st \in {<<1, 1>>, <<1, 2>>, <<2, 1>>}}
    \cup
    {[tasks |-> <<>>, issues |-> <<LinkedIssue(Key1, res, 1)>>,
      completed |-> <<PrependJiraLink(<<"a">>, Key1, JiraURL)>>] : res \in BOOLEAN}

\* No text is under the codec.
NoCodec == [title |-> <<>>, text |-> <<>>, keys |-> <<>>, description |-> <<>>,
            decoded |-> FALSE, key |-> <<>>, stripped |-> <<>>, footerKey |-> <<>>,
            body |-> <<>>, sets |-> <<>>, userDesc |-> <<>>, todoistID |-> <<>>,
            syncedAt |-> [ok |-> FALSE, t |-> ZeroTime]]

\* No function of the configuration or of ADF has an argument.
NoCalc == [op |-> "none", statusMap |-> <<>>, name |-> "", status |-> "", section |-> "",
           backSection |-> "", backStatus |-> "", text |-> EmptyText, doc |-> NilDoc,
           back |-> EmptyText, priorityID |-> "", priority |-> 0,
           transitions |-> <<>>, target |-> "", getFails |-> FALSE, postFails |-> FALSE,
           posted |-> "", resolution |-> "", err |-> ""]

\* The watch command has not started.
NoWatch == [cmd |-> "init", result |-> "", interval |-> 0, cancelled |-> FALSE,
            ticker |-> FALSE,
            ticked |-> FALSE, run |-> "idle", todoist |-> "idle", jira |-> "idle", writes |-> {},
            left |-> 0, inflight |-> {}, active |-> 0, lastErr |-> FALSE,
            early |-> FALSE, late |-> FALSE]

InitWorld(W) ==
    /\ \E w \in W :
         /\ tasks = w.tasks
         /\ issues = w.issues
         /\ completed = w.completed
         /\ nextTaskID = Len(w.tasks) + 1
    /\ sections = InitSections
    /\ edits = 0
    /\ failed = 0
    /\ tick = FALSE
    /\ synced = {}
    /\ edit = NoEdit
    /\ last = NoRun

InitFrom(W) ==
    InitWorld(W) /\ codec = NoCodec /\ calc = NoCalc /\ watch = NoWatch /\ snap = NoSnap

Init == InitFrom(Worlds)

InitPair == InitFrom(PairWorlds)

\* Linked pairs whose two sides agree.
AgreeingWorlds(stamps) ==
    {[tasks |-> <<NewTask(1, PrependJiraLink(<<"a">>, Key1, JiraURL), d, due,
                          {linkLabel}, sec, st[1])>>,
      issues |-> <<NewIssue(Key1, <<"a">>, TextToADF(d), JiraStatusForSection(InitSections[sec]),
                            FALSE, st[2], due, <<Comment1>>, TRUE)>>,
      completed |-> <<>>] :
        d \in {EmptyText, <<"x">>}, due \in {"", "d1"}, sec \in {1, 2},
        st \in stamps}

InitEdit == InitFrom(AgreeingWorlds({<<1, 1>>, <<1, 2>>, <<2, 1>>}))

InitQuiet == InitFrom(AgreeingWorlds(StampPairs))

Next ==
    \/ Cycle
    \/ UserCompleteTask
    \/ UserComment

\* The two systems, runs of the engine in which calls fail, and users who
\* complete tasks and write comments.
Spec == Init /\ [][Next]_vars

\* A linked pair in any state, and runs of the engine in which calls fail.
SpecPair == InitPair /\ [][Cycle]_vars

NextEdit ==
    \/ CleanCycle
    \/ UserEditTask
    \/ UserEditIssue

\* A linked pair, failure-free runs of the engine, and users who edit the
\* task or the issue.
SpecEdit == InitEdit /\ [][NextEdit]_vars

\* A run of the engine starts: the only step that flips tick.
Started == tick' = ~tick

\* A linked pair that agrees, left to the engine: the watch loop of
\* src/cmd/sync.go starts one run after the other, and no call fails.
SpecQuiet == InitQuiet /\ [][CleanCycle]_vars /\ WF_tick(Started)

\* The key of an issue that the search of a run does not return: an issue of
\* another assignee or project, or of a type that is not synced.
KeyAway == KeyOf(9)

\* A task linked to an issue that is not fetched, alone or with another task
\* (unlinked, linked to a fetched issue, or linked to the same key), and the
\* fetched issues.
OrphanWorlds ==
    {[tasks |-> <<LinkedTask(1, KeyAway, st)>> \o extra, issues |-> is, completed |-> done] :
        st \in {1, BadTime},
        extra \in {<<>>, <<UnlinkedTask(2, 1)>>, <<LinkedTask(2, Key1, 1)>>,
                   <<LinkedTask(2, KeyAway, 2)>>},
        is \in {<<>>, <<UnlinkedIssue(Key1, "To Do")>>, <<LinkedIssue(Key1, FALSE, 2)>>},
        done \in {<<>>, <<PrependJiraLink(<<"a">>, KeyAway, JiraURL)>>}}

InitOrphan == InitFrom(OrphanWorlds)

\* Tasks linked to an issue that is not fetched, and runs of the engine in
\* which calls fail.
SpecOrphan == InitOrphan /\ [][Cycle]_vars

\* Two issues whose statuses have no section, or the same section: both
\* without a task, one of them or both with a linked task that is older.
BucketWorlds ==
    {[tasks |-> ts,
      issues |-> <<NewIssue(Key1, <<"a">>, NilDoc, s1, FALSE, 2, "", <<>>, TRUE),
                   NewIssue(Key2, <<"b">>, NilDoc, s2, FALSE, 2, "", <<>>, TRUE)>>,
      completed |-> <<>>] :
        ts \in {<<>>, <<LinkedTask(1, Key1, 1)>>,
                <<LinkedTask(1, Key1, 1), LinkedTask(2, Key2, 1)>>},
        s1 \in {"Open", "Review"}, s2 \in {"Open", "Review", "In Progress"}}

InitBucket == InitFrom(BucketWorlds)

\* Issues whose statuses have no section, and runs of the engine in which
\* calls fail.
SpecBucket == InitBucket /\ [][Cycle]_vars

\* The fetch of a run as a step of its own: eg.Wait() returns an error and
\* the run is over, or the run holds what the two goroutines fetched.
Fetch ==
    /\ ~snap.taken
    /\ \E fail \in Failures :
         IF fetchFailed(fail)
         THEN Returned([m |-> Start(fail), err |-> TRUE])
         ELSE /\ snap' = [taken |-> TRUE, fail |-> fail, tasks |-> tasks,
                          issues |-> issues, completed |-> completed]
              /\ UNCHANGED <<tasks, completed, sections, issues, nextTaskID, edits,
                             failed, tick, synced, edit, last, codec, calc, watch>>

\* The loops of the run that fetched snap: they work on what was fetched,
\* and their calls reach the two systems as they are now.
Push ==
    /\ snap.taken
    /\ \E order \in Perms(linkedKeys(taskKeys(snap.tasks))) :
         Returned([m |-> RunLoops(Start(snap.fail), order, snap.tasks,
                                  taskKeys(snap.tasks), snap.issues,
                                  completedTodoistKeys(snap.completed, snap.fail)),
                   err |-> FALSE])

\* A user edits the task or the issue while a run is between its fetch and
\* its loops.
EditDuringRun ==
    /\ snap.taken
    /\ \/ UserEditTask
       \/ UserEditIssue

NextRace ==
    \/ Fetch
    \/ EditDuringRun
    \/ Push

\* A linked pair that agrees, runs of the engine in two steps, and users who
\* edit the task or the issue between the two.
SpecRace == InitEdit /\ [][NextRace]_vars

\* Two active tasks whose titles hold the link of the same issue (a user
\* duplicated the task), and the issue in the sprint.
TwinWorlds ==
    {[tasks |-> <<NewTask(1, PrependJiraLink(t, Key1, JiraURL), <<"x">>, "d1",
                          {linkLabel}, sec, st[1]),
                  LinkedTask(2, Key1, st[2])>>,
      issues |-> <<LinkedIssue(Key1, res, st[3])>>,
      completed |-> <<>>] :
        t \in {<<"a">>, <<"b">>}, sec \in {1, 2}, res \in BOOLEAN,
        st \in {<<1, 2, 3>>, <<3, 2, 1>>, <<2, 1, 1>>, <<1, 1, 2>>}}

InitTwin == InitFrom(TwinWorlds)

SpecTwin == InitTwin /\ [][Cycle]_vars

\* A user of Jira reopens a resolved issue.
UserReopenIssue ==
    /\ UserStep
    /\ \E i \in 1..Len(issues) :
         /\ issues[i].resolved
         /\ EditedIssue(issues[i], "resolution", "Done", "")
         /\ TouchedIssue([issues EXCEPT ![i].status = "In Progress",
                                        ![i].resolved = FALSE], i)
    /\ UNCHANGED <<completed, sections, nextTaskID, synced>>

\* A task linked to the issue Key1 and that issue, resolved or not; no task
\* is completed.
ReopenWorlds ==
    {[tasks |-> <<LinkedTask(1, Key1, st[1])>>,
      issues |-> <<LinkedIssue(Key1, res, st[2])>>,
      completed |-> <<>>] : st \in {<<1, 2>>, <<2, 1>>, <<1, 1>>}, res \in BOOLEAN}

InitReopen == InitFrom(ReopenWorlds)

NextReopen ==
    \/ Cycle
    \/ UserReopenIssue

\* A linked pair, runs of the engine in which calls fail, and a user of Jira
\* who reopens the issue; no user completes a task.
SpecReopen == InitReopen /\ [][NextReopen]_vars

\* What a user of Todoist may make of the title c of a task: another text
\* after the link, a text before the link, a space before it, or the title
\* without the link.
Retitled(c) ==
    {PrependJiraLink(<<"b">>, ExtractJiraKey(c), JiraURL), <<"!", " ">> \o c, <<" ">> \o c,
     StripJiraPrefix(c)} \ {c}

\* A user rewrites the whole title of a task.
UserRetitle ==
    /\ UserStep
    /\ \E i \in 1..Len(tasks) :
         /\ ExtractJiraKey(tasks[i].content) # <<>>
         /\ \E c \in Retitled(tasks[i].content) :
              /\ EditedTask(tasks[i], "title", tasks[i].content, c)
              /\ Touched([tasks EXCEPT ![i].content = c], i)
    /\ UNCHANGED <<completed, sections, nextTaskID, synced>>

\* A task linked to the issue Key1, and that issue.
TitleWorlds ==
    {[tasks |-> <<LinkedTask(1, Key1, st[1])>>,
      issues |-> <<LinkedIssue(Key1, FALSE, st[2])>>,
      completed |-> <<>>] : st \in {<<1, 2>>, <<2, 1>>}}

InitTitle == InitFrom(TitleWorlds)

NextTitle ==
    \/ Cycle
    \/ UserRetitle

\* A linked pair, runs of the engine in which calls fail, and a user who
\* rewrites the title of the task.
SpecTitle == InitTitle /\ [][NextTitle]_vars

----------------------------------------------------------------------------
(* The codecs of src/syncer/link.go applied to texts *)

MaxEmbeds == 2

CodecKeys == {Key1, Key2}

\* Titles: empty, plain, starting with whitespace, carrying a marker, with a
\* marker in the middle or after whitespace, with a malformed marker, and
\* with two markers one after the other.
CodecTexts ==
    { <<>>,
      <<"a">>,
      <<" ", "a">>,
      PrependJiraLink(<<"b">>, Key2, JiraURL),
      <<"a", " ">> \o JiraLink(Key1, JiraURL),
      <<" ">> \o JiraLink(Key1, JiraURL),
      <<"[">> \o Key1 \o <<"]", " ", "a">>,
      JiraLink(Key1, JiraURL) \o <<" ">> \o JiraLink(Key2, JiraURL) \o <<" ", "a">> }

\* Descriptions: empty, plain, one whose body mentions the footer's key line,
\* one that ends with the footer, one that ends with a newline, and ones
\* whose body mentions the footer's id line or time line.
CodecDescriptions ==
    { <<>>,
      <<"x">>,
      <<"s", "e", "e", " ">> \o jiraKeyPrefix \o Key1,
      <<"x">> \o syncSeparator \o jiraKeyPrefix \o Key2,
      <<"x", "\n">>,
      todoistPrefix \o <<"9">>,
      syncedAtPrefix \o <<"z">> }

MaxSets == 2

\* The values SetJiraKey and SetTodoistID write.
LinkValues == [jira |-> CodecKeys, todoist |-> {<<"7">>, <<"8">>}]

\* Times on and off the second.
SyncTimes == {Time(1, 0), Time(2, 0), Time(2, 1)}

InitCodec ==
    /\ InitWorld({[tasks |-> <<>>, issues |-> <<>>, completed |-> <<>>]})
    /\ calc = NoCalc
    /\ watch = NoWatch
    /\ snap = NoSnap
    /\ \E t \in CodecTexts, d \in CodecDescriptions :
         codec = [NoCodec EXCEPT !.title = t, !.text = t, !.description = d, !.body = d]

\* PrependJiraLink applied to the text, with any key.
Embed ==
    /\ Len(codec.keys) < MaxEmbeds
    /\ codec.sets = <<>>
    /\ \E k \in CodecKeys :
         codec' = [codec EXCEPT !.text = PrependJiraLink(@, k, JiraURL),
                                !.keys = Append(@, k),
                                !.decoded = FALSE,
                                !.key = <<>>,
                                !.stripped = <<>>,
                                !.footerKey = <<>>,
                                !.todoistID = <<>>,
                                !.userDesc = <<>>,
                                !.syncedAt = [ok |-> FALSE, t |-> ZeroTime]]
    /\ UNCHANGED <<tasks, completed, sections, issues, nextTaskID, edits, failed,
                   tick, synced, edit, last, calc, watch, snap>>

\* ExtractJiraKey and StripJiraPrefix applied to the text, and the footer
\* codec's ExtractJiraKey applied to the description.
Decode ==
    /\ ~codec.decoded
    /\ codec' = [codec EXCEPT !.decoded = TRUE,
                              !.key = ExtractJiraKey(codec.text),
                              !.stripped = StripJiraPrefix(codec.text),
                              !.footerKey = ExtractJiraKeyFooter(codec.description),
                              !.todoistID = ExtractTodoistID(codec.description),
                              !.userDesc = UserDescription(codec.description),
                              !.syncedAt = ExtractSyncedAt(codec.description)]
    /\ UNCHANGED <<tasks, completed, sections, issues, nextTaskID, edits, failed,
                   tick, synced, edit, last, calc, watch, snap>>

\* SetJiraKey or SetTodoistID applied to the description, with any value and
\* any time; a second application is of the same function as the first.
SetLink ==
    /\ Len(codec.sets) < MaxSets
    /\ codec.keys = <<>>
    /\ \E kind \in {"jira", "todoist"}, t \in SyncTimes :
         /\ codec.sets # <<>> => kind = codec.sets[1].kind
         /\ \E v \in LinkValues[kind] :
              codec' = [codec EXCEPT
                          !.description = IF kind = "jira" THEN SetJiraKey(@, v, t)
                                          ELSE SetTodoistID(@, v, t),
                          !.sets = Append(@, [kind |-> kind, val |-> v, t |-> t]),
                          !.decoded = FALSE,
                          !.key = <<>>,
                          !.stripped = <<>>,
                          !.footerKey = <<>>,
                          !.todoistID = <<>>,
                          !.userDesc = <<>>,
                          !.syncedAt = [ok |-> FALSE, t |-> ZeroTime]]
    /\ UNCHANGED <<tasks, completed, sections, issues, nextTaskID, edits, failed,
                   tick, synced, edit, last, calc, watch, snap>>

NextCodec ==
    \/ Embed
    \/ Decode
    \/ SetLink

\* Texts of every shape, embedded into and decoded.
SpecCodec == InitCodec /\ [][NextCodec]_vars

----------------------------------------------------------------------------
(* The functions of the configuration and of ADF applied to arguments *)

\* Status maps: the one of this model, partial ones, the empty one, and one
\* with two sections for one status.
StatusMaps ==
    { StatusMap,
      [s \in {"Doing"} |-> "In Progress"],
      [s \in {"Doing", "Done"} |-> IF s = "Doing" THEN "In Progress" ELSE "Closed"],
      [s \in {"Doing", "Review"} |-> "In Progress"],
      [s \in {} |-> ""] }

StatusNames == {"To Do", "Doing", "In Progress", "Done", "Review", "Backlog"}

\* Texts: empty, of one line and of several, with blank lines.
PlainTexts ==
    { EmptyText, <<"a">>, <<"a", "b">>, <<"a", "", "b">>, <<"", "a">>, <<"a", "">>,
      <<"", "">> }

\* Jira priority ids: Highest to Lowest, none, and one Jira does not have.
PriorityIDs == {"1", "2", "3", "4", "5", "", "10000", " 1 ", " "}

InitCalc ==
    /\ InitWorld({[tasks |-> <<>>, issues |-> <<>>, completed |-> <<>>]})
    /\ codec = NoCodec
    /\ watch = NoWatch
    /\ snap = NoSnap
    /\ \E m \in StatusMaps, n \in StatusNames, t \in PlainTexts, p \in PriorityIDs :
         calc = [NoCalc EXCEPT !.statusMap = m, !.name = n, !.text = t, !.priorityID = p]

\* The name taken for a section and for a status, mapped there and back.
MapStatus ==
    /\ calc.op = "none"
    /\ \E sec \in SectionForJiraStatusIn(calc.statusMap, calc.name) :
         \E back \in SectionForJiraStatusIn(calc.statusMap,
                        JiraStatusForSectionIn(calc.statusMap, calc.name)) :
           calc' = [calc EXCEPT
                      !.op = "status",
                      !.status = JiraStatusForSectionIn(calc.statusMap, calc.name),
                      !.section = sec,
                      !.backSection = back,
                      !.backStatus = JiraStatusForSectionIn(calc.statusMap, sec)]
    /\ UNCHANGED <<tasks, completed, sections, issues, nextTaskID, edits, failed,
                   tick, synced, edit, last, codec, watch, snap>>

\* The text to ADF and back.
ConvertText ==
    /\ calc.op = "none"
    /\ calc' = [calc EXCEPT !.op = "adf",
                            !.doc = TextToADF(calc.text),
                            !.back = ADFToText(TextToADF(calc.text))]
    /\ UNCHANGED <<tasks, completed, sections, issues, nextTaskID, edits, failed,
                   tick, synced, edit, last, codec, watch, snap>>

\* The priority id to a Todoist priority.
ConvertPriority ==
    /\ calc.op = "none"
    /\ calc' = [calc EXCEPT !.op = "priority",
                            !.priority = TodoistPriority(calc.priorityID)]
    /\ UNCHANGED <<tasks, completed, sections, issues, nextTaskID, edits, failed,
                   tick, synced, edit, last, codec, watch, snap>>

NextCalc ==
    \/ MapStatus
    \/ ConvertText
    \/ ConvertPriority

----------------------------------------------------------------------------
(* jira.Client.DoTransition as a function of the transitions Jira offers:
   src/unnamed/part_002 lines 139-183 *)

Transition(id, name, to) == [id |-> id, name |-> name, to |-> to]

\* t is the transition asked for: its name or the name of its destination
\* status is targetStatus, whatever the case.
Matches(t, targetStatus) ==
    EqualFold(t.name, targetStatus) \/ EqualFold(t.to, targetStatus)

\* The request that was posted (none: id ""), and the error returned.
Posted(id, resolution, err) == [posted |-> id, resolution |-> resolution, err |-> err]

\* A variant of TransitionsPosted that posts the first transition Jira offers
\* when none matches.
TransitionsPostedAnyway(transitions, targetStatus, getFails, postFails) ==
    IF getFails THEN Posted("", "", "get transitions")
    ELSE IF transitions = <<>> THEN Posted("", "", "no transition found")
    ELSE Posted(transitions[1].id,
                IF EqualFold(targetStatus, "Closed") THEN "Done" ELSE "",
                IF postFails THEN "do transition" ELSE "")

\* DoTransition: GET the transitions, take the first that matches, POST it,
\* with the resolution "Done" when targetStatus is "Closed".
TransitionsPosted(transitions, targetStatus, getFails, postFails) ==
    LET found == {k \in 1..Len(transitions) : Matches(transitions[k], targetStatus)}
    IN IF getFails THEN Posted("", "", "get transitions")
       ELSE IF found = {} THEN Posted("", "", "no transition found")
       ELSE Posted(transitions[CHOOSE k \in found : \A j \in found : k <= j].id,
                   IF EqualFold(targetStatus, "Closed") THEN "Done" ELSE "",
                   IF postFails THEN "do transition" ELSE "")

\* Transitions of a workflow: one found by its destination only, one by its
\* name only, one by both, one that leads to "Done" under the name "closed".
Offered ==
    { Transition("11", "Finish", "Closed"), Transition("21", "Done", "Resolved"),
      Transition("31", "In Progress", "In Progress"), Transition("41", "closed", "Done") }

MaxOffered == 2

OfferedLists ==
    {l \in UNION {[1..n -> Offered] : n \in 0..MaxOffered} :
        \A j, k \in 1..Len(l) : l[j] = l[k] => j = k}

Targets == {"Closed", "closed", "Done", "done", "In Progress", "Review"}

InitTransit ==
    /\ InitWorld({[tasks |-> <<>>, issues |-> <<>>, completed |-> <<>>]})
    /\ codec = NoCodec
    /\ watch = NoWatch
    /\ snap = NoSnap
    /\ \E trs \in OfferedLists, target \in Targets, g \in BOOLEAN, p \in BOOLEAN :
         calc = [NoCalc EXCEPT !.transitions = trs, !.target = target,
                               !.getFails = g, !.postFails = p]

\* One call of DoTransition.
Transit ==
    /\ calc.op = "none"
    /\ LET r == TransitionsPosted(calc.transitions, calc.target, calc.getFails,
                                  calc.postFails)
       IN calc' = [calc EXCEPT !.op = "transition", !.posted = r.posted,
                               !.resolution = r.resolution, !.err = r.err]
    /\ UNCHANGED <<tasks, completed, sections, issues, nextTaskID, edits, failed,
                   tick, synced, edit, last, codec, watch, snap>>

\* The transitions Jira offers and the target status, of every shape, with
\* DoTransition called once.
SpecTransit == InitTransit /\ [][Transit]_vars

\* Status maps, names, texts and priority ids of every shape, with the
\* functions of the configuration and of ADF applied to them.
SpecCalc == InitCalc /\ [][NextCalc]_vars

----------------------------------------------------------------------------
(* The watch command (src/unnamed/part_005 lines 15-63) and the goroutines  *)
(* and calls of Engine.Run (src/syncer/engine.go lines 125-286).            *)
(*   cmd: where RunE is; result: what it returned; interval: cfg.Interval;  *)
(*   cancelled: ctx is done;                                                *)
(*   ticker, ticked: the ticker exists, its channel holds a tick;           *)
(*   run: the phase of the run in flight; todoist, jira: the call each      *)
(*   goroutine of the errgroup is at; writes: who wrote which variable of   *)
(*   Run; left: the calls for items still to make; inflight: the calls for  *)
(*   items issued and not returned; active: the runs in flight;             *)
(*   lastErr: the last run returned an error; early: a call for an item     *)
(*   was issued before both goroutines ended; late: a call for an item      *)
(*   issued after ctx was done succeeded.                                   *)

MaxItemCalls == 2

\* The values of --interval, in units of time; the flag takes any duration.
Intervals == {-1, 0, 1}

DefaultInterval == 5

\* The calls of the Todoist goroutine, in order.
TodoistFetch == <<"FindProjectByName", "GetSections", "GetTasks", "GetCompletedTasks">>

\* The variables of Run the goroutine assigns around the call.
Written(call, ok) ==
    CASE call = "FindProjectByName" -> {"project"}
      [] call = "GetSections" -> IF ok THEN {"sections", "secMap"} ELSE {"sections"}
      [] call = "GetTasks" -> {"tasks"}
      [] call = "GetCompletedTasks" -> IF ok THEN {"completedTodoistKeys"} ELSE {}
      [] call = "SearchIssues" -> {"issues"}

\* Where the Todoist goroutine is after the call: only the failure of
\* GetCompletedTasks is not returned.
AfterTodoist(call, ok) ==
    IF ~ok /\ call # "GetCompletedTasks" THEN "failed"
    ELSE IF call = "FindProjectByName" THEN "GetSections"
    ELSE IF call = "GetSections" THEN "GetTasks"
    ELSE IF call = "GetTasks" THEN "GetCompletedTasks"
    ELSE "done"

\* A variant of CallOutcomes for a client that does not look at the context.
CallOutcomesAnyway(cancelled) == BOOLEAN

\* The outcomes of a call issued with the context: every request is made
\* with SetContext(ctx), so a call issued when ctx is done fails.
CallOutcomes(cancelled) == IF cancelled THEN {FALSE} ELSE BOOLEAN

\* A variant of Joined that is content with one goroutine.
JoinedFirst(w) == w.todoist \in {"done", "failed"} \/ w.jira \in {"done", "failed"}

\* eg.Wait() returns: both goroutines have returned.
Joined(w) == w.todoist \in {"done", "failed"} /\ w.jira \in {"done", "failed"}

WatchStep(w) ==
    /\ watch' = w
    /\ UNCHANGED <<tasks, completed, sections, issues, nextTaskID, edits, failed,
                   tick, synced, edit, last, codec, calc, snap>>

InitWatch ==
    /\ InitWorld({[tasks |-> <<>>, issues |-> <<>>, completed |-> <<>>]})
    /\ codec = NoCodec
    /\ calc = NoCalc
    /\ watch = NoWatch
    /\ snap = NoSnap

\* cfg.Validate or jira.NewClient fails and RunE returns the error, or
\* Validate puts the default in the place of an interval of zero, the
\* context is made and the first run is next.
Validate ==
    /\ watch.cmd = "init"
    /\ \/ WatchStep([watch EXCEPT !.cmd = "returned", !.result = "err"])
       \/ \E d \in Intervals :
            WatchStep([watch EXCEPT !.cmd = "first",
                                    !.interval = IF d = 0 THEN DefaultInterval ELSE d])

\* time.NewTicker(cfg.Interval) panics when the interval is not positive.
NewTicker(w) ==
    IF w.interval > 0 THEN [w EXCEPT !.cmd = "select", !.ticker = TRUE]
    ELSE [w EXCEPT !.cmd = "panicked"]

\* engine.Run is called: the Todoist goroutine is started.
StartRun(w) ==
    [w EXCEPT !.cmd = "running", !.run = "fetch", !.todoist = TodoistFetch[1],
              !.jira = "idle", !.writes = {}, !.left = 0, !.inflight = {},
              !.active = @ + 1]

\* engine.Run returns, with an error or without: the first run is followed
\* by the making of the ticker, a later one by the select.
RunReturned(w, err) ==
    [w EXCEPT !.cmd = "select", !.run = "idle", !.todoist = "idle", !.jira = "idle",
              !.active = @ - 1, !.lastErr = err]

EndRun(w, err) == IF w.ticker THEN RunReturned(w, err) ELSE NewTicker(RunReturned(w, err))

FirstRun ==
    /\ watch.cmd = "first"
    /\ WatchStep(StartRun(watch))

\* The ticker sends a tick; its channel holds one tick at most.
Tick ==
    /\ watch.ticker
    /\ watch.cmd \notin {"returned", "panicked"}
    /\ ~watch.ticked
    /\ WatchStep([watch EXCEPT !.ticked = TRUE])

\* SIGINT or SIGTERM: the context of signal.NotifyContext is done.
Interrupt ==
    /\ watch.cmd \notin {"init", "returned", "panicked"}
    /\ ~watch.cancelled
    /\ WatchStep([watch EXCEPT !.cancelled = TRUE])

\* case <-ticker.C
TickRun ==
    /\ watch.cmd = "select"
    /\ watch.ticked
    /\ WatchStep(StartRun([watch EXCEPT !.ticked = FALSE]))

\* case <-ctx.Done()
Shutdown ==
    /\ watch.cmd = "select"
    /\ watch.cancelled
    /\ WatchStep([watch EXCEPT !.cmd = "returned", !.result = "nil"])

\* The second eg.Go: the Jira goroutine is started.
GoJira ==
    /\ watch.cmd = "running"
    /\ watch.jira = "idle"
    /\ WatchStep([watch EXCEPT !.jira = "SearchIssues"])

\* A call of the Todoist goroutine returns.
TodoistCall ==
    /\ watch.cmd = "running"
    /\ \E n \in 1..Len(TodoistFetch) : watch.todoist = TodoistFetch[n]
    /\ \E ok \in CallOutcomes(watch.cancelled) :
         WatchStep([watch EXCEPT
                      !.todoist = AfterTodoist(@, ok),
                      !.writes = @ \cup {[by |-> "todoist", var |-> v] :
                                            v \in Written(watch.todoist, ok)}])

\* The call of the Jira goroutine returns.
JiraCall ==
    /\ watch.cmd = "running"
    /\ watch.jira = "SearchIssues"
    /\ \E ok \in CallOutcomes(watch.cancelled) :
         WatchStep([watch EXCEPT
                      !.jira = IF ok THEN "done" ELSE "failed",
                      !.writes = @ \cup {[by |-> "jira", var |-> v] :
                                            v \in Written("SearchIssues", ok)}])

\* eg.Wait() returns: with an error Run returns it, without one Run
\* classifies what was fetched and has some calls for items to make.
Wait ==
    /\ watch.run = "fetch"
    /\ Joined(watch)
    /\ IF "failed" \in {watch.todoist, watch.jira}
       THEN WatchStep(EndRun(watch, TRUE))
       ELSE \E n \in 0..MaxItemCalls :
                WatchStep([watch EXCEPT !.run = "items", !.left = n])

\* The loops over the items issue the next call when the last has returned.
IssueItem ==
    /\ watch.run = "items"
    /\ watch.left > 0
    /\ watch.inflight = {}
    /\ WatchStep([watch EXCEPT
                    !.inflight = {[n |-> watch.left, cancelled |-> watch.cancelled]},
                    !.early = @ \/ ~(watch.todoist = "done" /\ watch.jira = "done")])

\* A call for an item returns; a failure is logged or recorded and the loop
\* goes on.
CompleteItem ==
    /\ \E c \in watch.inflight : \E ok \in CallOutcomes(c.cancelled) :
         WatchStep([watch EXCEPT !.inflight = @ \ {c},
                                 !.left = @ - 1,
                                 !.late = @ \/ (c.cancelled /\ ok)])

\* The loops are done: Run prints the summary and returns nil.
FinishRun ==
    /\ watch.run = "items"
    /\ watch.left = 0
    /\ watch.inflight = {}
    /\ WatchStep(EndRun(watch, FALSE))

\* A step of the run in flight.
RunStep ==
    \/ FirstRun
    \/ GoJira
    \/ TodoistCall
    \/ JiraCall
    \/ Wait
    \/ IssueItem
    \/ CompleteItem
    \/ FinishRun

NextWatch ==
    \/ Validate
    \/ Tick
    \/ Interrupt
    \/ TickRun
    \/ Shutdown
    \/ RunStep

\* The watch command. A run in flight goes on, the ticker ticks, and a tick
\* that is the only ready case of the select is taken (weak fairness); the
\* select chooses among its ready cases at random, so the case of the done
\* context is taken at last however often a tick is ready too (strong
\* fairness).
SpecWatch ==
    /\ InitWatch
    /\ [][NextWatch]_vars
    /\ WF_watch(RunStep)
    /\ WF_watch(Tick)
    /\ WF_watch(TickRun)
    /\ SF_watch(Shutdown)

----------------------------------------------------------------------------
(* What the last run did *)

CallsOf(ops) == {i \in 1..Len(last.calls) : last.calls[i].op \in ops}

Called(ops) == CallsOf(ops) # {}

ToTodoistOps == {"UpdateTask", "MoveTaskToSection", "CreateSection", "CreateComment",
                 "GetComments"}

ToJiraOps == {"CreateIssue", "UpdateIssue", "DoTransition"}

\* The last run started from one task and the issue its content links to.
PairRun ==
    /\ last.ran
    /\ ~last.err
    /\ Len(last.pre.tasks) = 1
    /\ Len(last.pre.issues) = 1
    /\ ExtractJiraKey(last.pre.tasks[1].content) = last.pre.issues[1].key

PreTask == last.pre.tasks[1]

PreIssue == last.pre.issues[1]

\* Both timestamps are well formed and the issue's is the later one.
IssueLater == PreTask.updated > 0 /\ PreIssue.updated > PreTask.updated

SectionName(secs, id) == IF id \in 1..Len(secs) THEN secs[id] ELSE ""

\* C1: for a linked pair whose issue is not resolved, the run pushes the issue
\* to the task exactly when the issue's time is strictly later than the
\* task's; on a tie, an earlier issue time or a task time that does not parse
\* it pushes the task to the issue; never both directions.
C1_Direction ==
    (PairRun /\ ~PreIssue.resolved) =>
        /\ Called(ToTodoistOps) <=> IssueLater
        /\ Called(ToJiraOps) <=> ~IssueLater
        /\ (last.summary.updatedToTodoist # <<>>) <=> IssueLater
        /\ (last.summary.updatedToJira # <<>>) <=> ~IssueLater

C1_Witness ==
    /\ PairRun
    /\ ~PreIssue.resolved
    /\ PreTask.updated > 0
    /\ PreIssue.updated = PreTask.updated
    /\ Called({"UpdateIssue"})
    /\ ~Called(ToTodoistOps)

\* C2: for a linked pair whose issue is resolved, the run closes the task
\* whatever the two timestamps are, and makes no call that changes the issue.
C2_ResolvedCloses ==
    (PairRun /\ PreIssue.resolved) =>
        /\ \E i \in CallsOf({"CloseTask"}) : last.calls[i].task = PreTask.id
        /\ ~Called(ToJiraOps)
        /\ [issues[1] EXCEPT !.updated = 0] = [PreIssue EXCEPT !.updated = 0]
        /\ "CloseTask" \notin last.fail =>
              /\ tasks = <<>>
              /\ Contains(completed, PreTask.content)

C2_Witness ==
    /\ PairRun
    /\ PreIssue.resolved
    /\ PreTask.updated = BadTime
    /\ PreIssue.updated > 0
    /\ tasks = <<>>
    /\ Contains(completed, PreTask.content)

\* C3: at most one issue was created for a task and at most one task for an
\* issue, and no two tasks link to the same issue, whatever calls failed.
C3_OneCounterpart ==
    /\ \A id \in 1..(nextTaskID - 1) :
          Cardinality({i \in 1..Len(issues) : issues[i].origin = id}) <= 1
    /\ \A k \in 1..Len(issues) :
          /\ Cardinality({j \in 1..Len(tasks) : tasks[j].origin = issues[k].key}) <= 1
          /\ Cardinality({j \in 1..Len(tasks) :
                            ExtractJiraKey(tasks[j].content) = issues[k].key}) <= 1

\* The pair of the state agrees on title, body, due date and status.
Agreeing ==
    /\ Len(tasks) = 1
    /\ Len(issues) = 1
    /\ ExtractJiraKey(tasks[1].content) = issues[1].key
    /\ ~issues[1].resolved
    /\ StripJiraPrefix(tasks[1].content) = issues[1].summary
    /\ tasks[1].description = ADFToText(issues[1].description)
    /\ tasks[1].due = issues[1].duedate
    /\ tasks[1].section # 0
    /\ statusEquivalent(JiraStatusForSection(SectionName(sections, tasks[1].section)),
                        issues[1].status)

\* The last run, if there was one, made no update, move or transition call.
Quiet == ~Called({"UpdateTask", "UpdateIssue", "MoveTaskToSection", "DoTransition"})

\* C4: from a linked unresolved pair that agrees, with no user edit and no
\* failure, the runs converge: from some run on, no run makes an update, move
\* or transition call.
C4_Converges == Agreeing => <>[]Quiet

\* The side of the pair that lost the last run carries the values the other
\* side had before the run.
TaskCarries(t, i) ==
    /\ StripJiraPrefix(t.content) = i.summary
    /\ t.description = ADFToText(i.description)
    /\ t.due = i.duedate
    /\ SectionName(sections, t.section) = SectionForJiraStatus(i.status)

IssueCarries(i, t) ==
    /\ i.summary = StripJiraPrefix(t.content)
    /\ ADFToText(i.description) = t.description
    /\ i.duedate = t.due
    /\ statusEquivalent(i.status,
                        JiraStatusForSection(SectionName(last.pre.sections, t.section)))

\* C6: after a failure-free run over an unresolved linked pair, the title,
\* body, due date and status or section of the side that lost equal those of
\* the side that won, an absent due date, an empty body and a task in no
\* section included.
C6_LoserEqualsWinner ==
    (PairRun /\ ~PreIssue.resolved /\ last.fail = {}) =>
        IF IssueLater THEN TaskCarries(tasks[1], PreIssue)
        ELSE IssueCarries(issues[1], PreTask)

\* The last user action changed one of the four fields of one side of a
\* linked unresolved pair, after a failure-free run; since then runs without a
\* failure followed, and nothing else.
EditRun ==
    /\ last.ran
    /\ edit.side \in {"task", "issue"}
    /\ edit.field \in {"title", "description", "due", "status"}
    /\ edit.paired
    /\ edit.prior
    /\ edit.clean
    /\ edit.cycles >= 1
    /\ Len(tasks) = 1
    /\ Len(issues) = 1

\* The side that was not edited carries the new value.
Carried ==
    IF edit.side = "task"
    THEN CASE edit.field = "title" -> issues[1].summary = edit.new
           [] edit.field = "description" -> ADFToText(issues[1].description) = edit.new
           [] edit.field = "due" -> issues[1].duedate = edit.new
           [] edit.field = "status" ->
                  statusEquivalent(issues[1].status, JiraStatusForSection(edit.new))
    ELSE CASE edit.field = "title" -> StripJiraPrefix(tasks[1].content) = edit.new
           [] edit.field = "description" -> tasks[1].description = ADFToText(edit.new)
           [] edit.field = "due" -> tasks[1].due = edit.new
           [] edit.field = "status" ->
                  SectionName(sections, tasks[1].section) = SectionForJiraStatus(edit.new)

\* The edited side has the value again that it had before the edit.
Reverted ==
    IF edit.side = "task"
    THEN CASE edit.field = "title" -> StripJiraPrefix(tasks[1].content) = edit.old
           [] edit.field = "description" -> tasks[1].description = edit.old
           [] edit.field = "due" -> tasks[1].due = edit.old
           [] edit.field = "status" -> SectionName(sections, tasks[1].section) = edit.old
    ELSE CASE edit.field = "title" -> issues[1].summary = edit.old
           [] edit.field = "description" -> issues[1].description = edit.old
           [] edit.field = "due" -> issues[1].duedate = edit.old
           [] edit.field = "status" -> issues[1].status = edit.old

\* C5: when a user changes the title, description, due date or status of one
\* side of a linked unresolved pair between two failure-free runs, the other
\* side carries the new value after the next run, and no later run gives the
\* edited side its old value back.
C5_EditPropagates ==
    EditRun => /\ edit.cycles = 1 => Carried
               /\ ~Reverted

\* The new value of the edit is not an empty one.
NonEmptyEdit ==
    CASE edit.field = "description" ->
             IF edit.side = "task" THEN edit.new # EmptyText ELSE edit.new # NilDoc
      [] OTHER -> edit.new # ""

\* The part of C5 that holds: an edit to a value that is not empty propagates
\* and is not reverted.
C5_NonEmptyEditPropagates ==
    (EditRun /\ NonEmptyEdit) => /\ edit.cycles = 1 => Carried
                                 /\ ~Reverted

\* C7: when finding the project, listing the sections, listing the tasks or
\* searching the issues fails, Run returns an error and has made no call that
\* changes either system.
C7_FetchFailureAborts ==
    (last.ran /\ last.fail \cap FetchCalls # {}) =>
        /\ last.err
        /\ last.calls = <<>>
        /\ tasks = last.pre.tasks
        /\ issues = last.pre.issues
        /\ sections = last.pre.sections
        /\ completed = last.pre.completed

C7_Witness ==
    /\ last.ran
    /\ "SearchIssues" \in last.fail
    /\ last.err
    /\ \E i \in 1..Len(tasks) :
          ExtractJiraKey(tasks[i].content) = <<>> /\ linkLabel \in tasks[i].labels

\* The calls whose failure fails the handling of an item.
ItemOps == {"CreateIssue", "CreateTask", "UpdateTask", "UpdateIssue", "CloseTask",
            "MoveTaskToSection"}

FailedItemCalls == {i \in CallsOf(ItemOps) : ~last.calls[i].ok}

\* The content the task with this id had before the last run.
PreContent(id) == last.pre.tasks[TaskIdx(last.pre.tasks, id)].content

\* The error bucket has an entry for the item the failed call c worked on.
ErrorFor(c) ==
    \E e \in 1..Len(last.summary.errors) :
        \/ c.key # <<>> /\ last.summary.errors[e].jiraKey = c.key
        \/ /\ c.task # 0
           /\ \/ last.summary.errors[e].jiraKey = ExtractJiraKey(PreContent(c.task))
              \/ last.summary.errors[e].summary = PreContent(c.task)

\* The items the run has to handle: the labelled tasks without a link, the
\* sprint issues without a task, and the linked pairs.
PreKeys == taskKeys(last.pre.tasks)

PreDone == completedTodoistKeys(last.pre.completed, last.fail)

TasksToCreateFrom ==
    {last.pre.tasks[i].id : i \in {j \in 1..Len(last.pre.tasks) :
        PreKeys[j] = <<>> /\ linkLabel \in last.pre.tasks[j].labels}}

IssuesToCreateFrom ==
    {last.pre.issues[i].key : i \in {j \in 1..Len(last.pre.issues) :
        /\ last.pre.issues[j].key \notin linkedKeys(PreKeys) \cup PreDone
        /\ ~last.pre.issues[j].resolved
        /\ last.pre.issues[j].inSprint}}

PairsToSync ==
    {last.pre.issues[i].key : i \in {j \in 1..Len(last.pre.issues) :
        last.pre.issues[j].key \in linkedKeys(PreKeys)}}

\* The run made a call for every item it has to handle.
AllProcessed ==
    /\ \A id \in TasksToCreateFrom :
          \E i \in CallsOf({"CreateIssue"}) : last.calls[i].task = id
    /\ \A key \in IssuesToCreateFrom :
          \/ \E i \in CallsOf({"CreateTask"}) : last.calls[i].key = key
          \/ \E i \in CallsOf({"CreateSection"}) : ~last.calls[i].ok
    /\ \A key \in PairsToSync :
          \/ \E i \in CallsOf({"UpdateIssue"}) : last.calls[i].key = key
          \/ \E i \in CallsOf({"UpdateTask", "CloseTask"}) :
                ExtractJiraKey(PreContent(last.calls[i].task)) = key

\* C8: when a create, update, close or move call fails after the fetch, the
\* failure is in the error bucket of the summary, every item of the run is
\* still handled, and Run returns no error.
C8_ItemFailureContinues ==
    (last.ran /\ last.fail \cap FetchCalls = {}) =>
        /\ ~last.err
        /\ \A i \in FailedItemCalls : ErrorFor(last.calls[i])
        /\ AllProcessed

C8_Witness ==
    /\ last.ran
    /\ ~last.err
    /\ Cardinality(FailedItemCalls) >= 2
    /\ Len(last.summary.errors) >= 2
    /\ Cardinality(TasksToCreateFrom \cup IssuesToCreateFrom) >= 1
    /\ Cardinality(PairsToSync) >= 1

\* The keys in the buckets of the summary.
KeysIn(bucket) == {bucket[i].jiraKey : i \in 1..Len(bucket)}

SuccessKeys ==
    KeysIn(last.summary.createdJira) \cup KeysIn(last.summary.createdTodoist)
    \cup KeysIn(last.summary.updatedToTodoist) \cup KeysIn(last.summary.updatedToJira)
    \cup KeysIn(last.summary.completedTodoist) \cup KeysIn(last.summary.resolvedJira)

\* C9: at the end of a run, an item is in the completed bucket only if its
\* task was closed, in a pushed bucket only if the update call succeeded, and
\* no item of the error bucket is in another bucket.
C9_SuccessOnlyIfSucceeded ==
    last.ran =>
        /\ \A key \in KeysIn(last.summary.completedTodoist) :
              \E i \in CallsOf({"CloseTask"}) :
                  /\ last.calls[i].ok
                  /\ ExtractJiraKey(PreContent(last.calls[i].task)) = key
        /\ \A key \in KeysIn(last.summary.updatedToJira) :
              \E i \in CallsOf({"UpdateIssue"}) :
                  last.calls[i].ok /\ last.calls[i].key = key
        /\ \A key \in KeysIn(last.summary.updatedToTodoist) :
              \E i \in CallsOf({"UpdateTask"}) :
                  /\ last.calls[i].ok
                  /\ ExtractJiraKey(PreContent(last.calls[i].task)) = key
        /\ SuccessKeys \cap (KeysIn(last.summary.errors) \ {<<>>}) = {}

\* C10: when the comments of an issue are propagated to its task twice in a
\* row, with no failure and no new comment in between, the second propagation
\* creates no comment.
C10_SecondPropagationCreatesNothing ==
    last.ran =>
        \A i \in 1..Len(last.props) :
            (last.props[i].again /\ last.props[i].clean) => last.props[i].created = 0

C10_Witness ==
    /\ last.ran
    /\ \E i \in 1..Len(last.props) :
          /\ last.props[i].again
          /\ last.props[i].clean
          /\ last.props[i].created = 0
          /\ \E k \in 1..Len(issues) :
                issues[k].key = last.props[i].key /\ Len(issues[k].comments) >= 1
          /\ \E j \in 1..Len(tasks) :
                tasks[j].id = last.props[i].task /\ Len(tasks[j].comments) >= 1

\* The authors of the comments of the issues.
Authors == {"Ann"}

\* The comment c of a task bears the prefix of a comment made from a Jira
\* comment.
FromJira(c) == \E a \in Authors : c[1] = "[From Jira " \o a \o "]"

\* The number of comments of the task t that a user wrote.
UserAuthored(t) == Cardinality({j \in 1..Len(t.comments) : ~FromJira(t.comments[j])})

\* The pairs (task index, issue index) that are linked.
LinkedPairs ==
    {p \in (1..Len(tasks)) \X (1..Len(issues)) :
        ExtractJiraKey(tasks[p[1]].content) = issues[p[2]].key}

\* C11: over any sequence of runs, no run adds a comment to an issue, and the
\* comments on each side of a linked pair are never more than the comments
\* the users wrote on both sides.
C11_NoPingPong ==
    /\ \A p \in LinkedPairs :
          /\ Len(tasks[p[1]].comments)
                <= UserAuthored(tasks[p[1]]) + Len(issues[p[2]].comments)
          /\ Len(issues[p[2]].comments)
                <= UserAuthored(tasks[p[1]]) + Len(issues[p[2]].comments)
    /\ last.ran =>
          \A k \in 1..Len(issues) : \A q \in 1..Len(last.pre.issues) :
              issues[k].key = last.pre.issues[q].key =>
                  issues[k].comments = last.pre.issues[q].comments

C11_Witness ==
    /\ last.ran
    /\ \E p \in LinkedPairs :
          /\ UserAuthored(tasks[p[1]]) >= 1
          /\ Len(issues[p[2]].comments) >= 1
          /\ Len(tasks[p[1]].comments)
                = UserAuthored(tasks[p[1]]) + Len(issues[p[2]].comments)
          /\ \E i \in 1..Len(last.props) :
                last.props[i].task = tasks[p[1]].id /\ last.props[i].created = 0

\* The linked pairs of the state that were linked, with the issue unresolved,
\* when the last run started.
PairsBefore ==
    {p \in LinkedPairs :
        /\ \E i \in 1..Len(last.pre.tasks) :
              /\ last.pre.tasks[i].id = tasks[p[1]].id
              /\ ExtractJiraKey(last.pre.tasks[i].content) = issues[p[2]].key
        /\ \E k \in 1..Len(last.pre.issues) :
              /\ last.pre.issues[k].key = issues[p[2]].key
              /\ ~last.pre.issues[k].resolved}

\* The text of the Jira comment made from the comment c of a task.
FromTodoist(c) == <<"[From Todoist] " \o c[1]>> \o Tail(c)

\* C12: after a run without a failure, every comment a user wrote on the task
\* of a linked unresolved pair is on the issue with the Todoist prefix, and
\* every comment of the issue is on the task with the Jira prefix.
C12_CommentsBothWays ==
    (last.ran /\ last.fail = {}) =>
        \A p \in PairsBefore :
            /\ \A j \in 1..Len(tasks[p[1]].comments) :
                  ~FromJira(tasks[p[1]].comments[j]) =>
                      \E k \in 1..Len(issues[p[2]].comments) :
                          ADFToText(issues[p[2]].comments[k].body)
                              = FromTodoist(tasks[p[1]].comments[j])
            /\ \A k \in 1..Len(issues[p[2]].comments) :
                  Contains(tasks[p[1]].comments, syncedContent(issues[p[2]].comments[k]))

\* The half of C12 about the comments of the task alone.
C12_TaskCommentsReachIssue ==
    (last.ran /\ last.fail = {}) =>
        \A p \in PairsBefore :
            \A j \in 1..Len(tasks[p[1]].comments) :
                ~FromJira(tasks[p[1]].comments[j]) =>
                    \E k \in 1..Len(issues[p[2]].comments) :
                        ADFToText(issues[p[2]].comments[k].body)
                            = FromTodoist(tasks[p[1]].comments[j])

\* The tasks that had the label and no link when the last run started.
PreUnlinked ==
    {i \in 1..Len(last.pre.tasks) :
        /\ ExtractJiraKey(last.pre.tasks[i].content) = <<>>
        /\ linkLabel \in last.pre.tasks[i].labels}

\* The issues of the state that the last run created from the task id.
CreatedFrom(id) ==
    {k \in 1..Len(issues) :
        /\ issues[k].origin = id
        /\ \A q \in 1..Len(last.pre.issues) : last.pre.issues[q].key # issues[k].key}

\* The status the section of a task of the last run's start maps to.
PreStatus(t) == JiraStatusForSection(SectionName(last.pre.sections, t.section))

PreIssueOf(key) == last.pre.issues[IssueIdx(last.pre.issues, key)]

\* The tasks of the state that the last run created from the issue key.
TasksCreatedFrom(key) ==
    {j \in 1..Len(tasks) :
        /\ tasks[j].origin = key
        /\ tasks[j].id \notin TaskIDs(last.pre.tasks)}

CompletedKeys ==
    {ExtractJiraKey(last.pre.completed[i]) : i \in 1..Len(last.pre.completed)} \ {<<>>}

\* C15: once a linked task is completed, no run creates a task for its issue,
\* whether or not the fetch of the completed tasks and the closing transition
\* of the issue succeed.
C15_NoTaskAfterCompletion ==
    last.ran =>
        \A c \in CallsOf({"CreateTask"}) : last.calls[c].key \notin CompletedKeys

\* The part of C15 that holds: in the runs in which the fetch of the completed
\* tasks succeeds, no task is created for the issue of a completed task.
C15_NoTaskWhenCompletedFetched ==
    (last.ran /\ "GetCompletedTasks" \notin last.fail) =>
        \A c \in CallsOf({"CreateTask"}) : last.calls[c].key \notin CompletedKeys

\* The issues that had no task and a completed task's key when the last run
\* started and fetched the completed tasks.
IssuesToResolve ==
    {q \in 1..Len(last.pre.issues) :
        /\ last.pre.issues[q].key \notin linkedKeys(PreKeys)
        /\ last.pre.issues[q].key \in PreDone}

\* The calls of the last run on the issue key.
CallsOn(key) == {c \in 1..Len(last.calls) : last.calls[c].key = key}

\* C16: for an issue without a task whose key is among the completed tasks, a
\* run requests exactly one transition to the closing status when the issue is
\* unresolved, and lists it as resolved when the transition succeeds and as
\* an error when it fails; it makes no call on the issue when it is resolved.
C16_ResolveCompleted ==
    (last.ran /\ ~last.err) =>
        \A q \in IssuesToResolve :
            LET is == last.pre.issues[q]
            IN IF is.resolved THEN CallsOn(is.key) = {}
               ELSE /\ Cardinality(CallsOn(is.key)) = 1
                    /\ \A c \in CallsOn(is.key) :
                          /\ last.calls[c].op = "DoTransition"
                          /\ last.calls[c].arg = "Closed"
                          /\ last.calls[c].ok =>
                                /\ is.key \in KeysIn(last.summary.resolvedJira)
                                /\ is.key \notin KeysIn(last.summary.errors)
                          /\ ~last.calls[c].ok =>
                                /\ is.key \in KeysIn(last.summary.errors)
                                /\ is.key \notin KeysIn(last.summary.resolvedJira)

C16_Witness ==
    /\ last.ran
    /\ ~last.err
    /\ \E q \in IssuesToResolve :
          /\ ~last.pre.issues[q].resolved
          /\ last.pre.issues[q].key \in KeysIn(last.summary.resolvedJira)
          /\ \E k \in 1..Len(issues) :
                issues[k].key = last.pre.issues[q].key /\ issues[k].resolved

\* The classes of the task i of the last run's start: linked when its content
\* holds a key, unlinked when the run has it in unlinkedTodoistTasks, ignored
\* when it has neither a key nor the label.
ClassesOf(i) ==
    (IF PreKeys[i] # <<>> THEN {"linked"} ELSE {})
    \cup (IF Contains(unlinkedTodoistTasks(last.pre.tasks, PreKeys, 1), last.pre.tasks[i])
          THEN {"unlinked"} ELSE {})
    \cup (IF PreKeys[i] = <<>> /\ linkLabel \notin last.pre.tasks[i].labels
          THEN {"ignored"} ELSE {})

\* The task of the state is the task t but for its timestamp.
SameTask(new, t) == [new EXCEPT !.updated = 0] = [t EXCEPT !.updated = 0]

\* C17: every task a run fetches is in exactly one of the classes linked,
\* unlinked and ignored, and the run makes no call on an ignored task, leaves
\* it as it is and creates no issue from it.
C17_IgnoredUntouched ==
    last.ran =>
        \A i \in 1..Len(last.pre.tasks) :
            /\ Cardinality(ClassesOf(i)) = 1
            /\ ClassesOf(i) = {"ignored"} =>
                  /\ \A c \in 1..Len(last.calls) :
                        last.calls[c].task # last.pre.tasks[i].id
                  /\ \A h \in 1..Len(last.handled) :
                        last.handled[h].task # last.pre.tasks[i].id
                  /\ \E j \in 1..Len(tasks) : SameTask(tasks[j], last.pre.tasks[i])
                  /\ \A k \in 1..Len(issues) : issues[k].origin # last.pre.tasks[i].id

C17_Witness ==
    /\ last.ran
    /\ ~last.err
    /\ \E i \in 1..Len(last.pre.tasks) : ClassesOf(i) = {"ignored"}
    /\ \E i \in 1..Len(last.pre.tasks) : ClassesOf(i) = {"linked"}
    /\ Called(MutatingCalls)

----------------------------------------------------------------------------
(* The link codec *)

\* The text was embedded into n times and then decoded.
Embedded(n) == codec.decoded /\ Len(codec.keys) = n

\* C18: a text with a key embedded into it gives back the key when
\* extracted from, and strips to what the text itself strips to, whatever
\* the text: empty, starting with whitespace, or carrying a marker already.
C18_RoundTrip ==
    Embedded(1) =>
        /\ codec.key = codec.keys[1]
        /\ codec.stripped = StripJiraPrefix(codec.title)

\* The first half of C18: the embedded key is the key extracted.
C18_KeyRoundTrip == Embedded(1) => codec.key = codec.keys[1]

\* The round trip of C18 for the texts that do not start with whitespace
\* once their marker, if any, is stripped.
C18_RoundTripTrimmed ==
    (Embedded(1) /\ SpanIn(StripJiraPrefix(codec.title), 1, Space) = 1) =>
        /\ codec.key = codec.keys[1]
        /\ codec.stripped = StripJiraPrefix(codec.title)

\* The number of markers a text starts with, one after the other.
RECURSIVE Markers(_)
Markers(s) ==
    IF ~jiraPrefixPattern(s).ok THEN 0
    ELSE 1 + Markers(StripJiraPrefix(s))

\* C19: a text embedded into twice, with the keys k1 and then k2, carries
\* exactly one marker, the key of that marker is k2, and the text strips to
\* what the original text strips to.
C19_EmbedTwice ==
    Embedded(2) =>
        /\ Markers(codec.text) = 1
        /\ codec.key = codec.keys[2]
        /\ codec.stripped = StripJiraPrefix(codec.title)

\* C19's three conjuncts for the texts that start with one marker at most
\* and do not start with whitespace once that marker is stripped.
C19_EmbedTwiceTrimmed ==
    (/\ Embedded(2)
     /\ Markers(codec.title) <= 1
     /\ SpanIn(StripJiraPrefix(codec.title), 1, Space) = 1) =>
        /\ Markers(codec.text) = 1
        /\ codec.key = codec.keys[2]
        /\ codec.stripped = StripJiraPrefix(codec.title)

\* The key extracted after two embeddings is the second key, whatever the text.
C19_SecondKey == Embedded(2) => codec.key = codec.keys[2]

\* A marker as PrependJiraLink writes it starts at the index i of s.
MarkerAt(s, i) == \E k \in CodecKeys : HasAt(s, i, JiraLink(k, JiraURL))

\* s holds markers, and none of them at its start.
MarkerOnlyAway(s) ==
    /\ \E i \in 2..Len(s) : MarkerAt(s, i)
    /\ ~MarkerAt(s, 1)

\* The key line of a footer starts at the index i of d.
KeyLineAt(d, i) == \E k \in CodecKeys : HasAt(d, i, jiraKeyPrefix \o k)

\* d holds key lines, and none of them right after the separator that
\* starts the footer.
KeyLineOnlyAway(d) ==
    /\ \E i \in 1..Len(d) : KeyLineAt(d, i)
    /\ ~\E i \in 1..Len(d) : HasAt(d, i, syncSeparator) /\ KeyLineAt(d, i + Len(syncSeparator))

\* C20: no key is extracted from a text whose markers are all away from the
\* anchor: the start of the title for the link marker, the footer after the
\* separator for the key line of a description.
C20_NoFalsePositive ==
    codec.decoded =>
        /\ MarkerOnlyAway(codec.text) => codec.key = <<>>
        /\ KeyLineOnlyAway(codec.description) => codec.footerKey = <<>>

\* The title half of C20: a title that does not start with a marker, be it
\* with a marker further on or with a malformed one, gives no key.
C20_TitleAnchored ==
    (codec.decoded /\ ~MarkerAt(codec.text, 1)) => codec.key = <<>>

\* A title with a marker further on only was decoded.
C20_TitleCase == codec.decoded /\ MarkerOnlyAway(codec.text)

----------------------------------------------------------------------------
(* The footer codec *)

\* The description was written to n times and then decoded.
FooterSet(n) == codec.decoded /\ Len(codec.sets) = n

\* What the last application wrote.
LastSet == codec.sets[Len(codec.sets)]

\* The value extracted for the function that wrote last.
ExtractedValue == IF LastSet.kind = "jira" THEN codec.footerKey ELSE codec.todoistID

\* The number of separators in d from the index i on.
RECURSIVE Footers(_, _)
Footers(d, i) ==
    IF IndexFrom(d, syncSeparator, i) = 0 THEN 0
    ELSE 1 + Footers(d, IndexFrom(d, syncSeparator, i) + 1)

\* C21: a description written to by SetJiraKey (or SetTodoistID) gives back
\* the value and the time written and the user's description it had; written
\* to a second time it has exactly one footer, with the second value and
\* time, and still the same user's description.
C21_FooterRoundTrip ==
    (FooterSet(1) \/ FooterSet(2)) =>
        /\ ExtractedValue = LastSet.val
        /\ codec.userDesc = UserDescription(codec.body)
        /\ codec.syncedAt = [ok |-> TRUE, t |-> LastSet.t]
        /\ Footers(codec.description, 1) = 1

\* A description without newline at its end, without a line of the footer in
\* its body, written to at whole seconds.
PlainBody ==
    /\ codec.body \in {<<>>, <<"x">>, <<"x">> \o syncSeparator \o jiraKeyPrefix \o Key2}
    /\ \A i \in 1..Len(codec.sets) : codec.sets[i].t.nano = 0

\* The round trip of C21 for plain descriptions and whole seconds.
C21_PlainRoundTrip ==
    ((FooterSet(1) \/ FooterSet(2)) /\ PlainBody) =>
        /\ ExtractedValue = LastSet.val
        /\ codec.userDesc = UserDescription(codec.body)
        /\ codec.syncedAt = [ok |-> TRUE, t |-> LastSet.t]
        /\ Footers(codec.description, 1) = 1

\* The parts of C21, one by one.
C21_Value == (FooterSet(1) \/ FooterSet(2)) => ExtractedValue = LastSet.val

C21_UserDescription ==
    (FooterSet(1) \/ FooterSet(2)) => codec.userDesc = UserDescription(codec.body)

C21_SyncedAt ==
    (FooterSet(1) \/ FooterSet(2)) => codec.syncedAt = [ok |-> TRUE, t |-> LastSet.t]

C21_OneFooter == (FooterSet(1) \/ FooterSet(2)) => Footers(codec.description, 1) = 1

----------------------------------------------------------------------------
(* Status mapping *)

\* The statuses a status map maps to.
StatusesOf(statusMap) == {statusMap[sec] : sec \in DOMAIN statusMap}

Mapped == calc.op = "status"

\* C22: a name that is no section of the status map is its own status, and
\* a name that is no status of the status map is its own section.
C22_IdentityFallback ==
    Mapped =>
        /\ calc.name \notin DOMAIN calc.statusMap => calc.status = calc.name
        /\ calc.name \notin StatusesOf(calc.statusMap) => calc.section = calc.name

\* A name the status map has neither as a section nor as a status was
\* mapped both ways, with a status map that has entries.
C22_Witness ==
    /\ Mapped
    /\ DOMAIN calc.statusMap # {}
    /\ calc.name \notin DOMAIN calc.statusMap
    /\ calc.name \notin StatusesOf(calc.statusMap)
    /\ calc.status = calc.name
    /\ calc.section = calc.name

\* C23: a section without entry in the status map comes back from its
\* status, and a status no entry maps to comes back from its section.
C23_RoundTrip ==
    Mapped =>
        /\ calc.name \notin DOMAIN calc.statusMap => calc.backSection = calc.name
        /\ calc.name \notin StatusesOf(calc.statusMap) => calc.backStatus = calc.name

\* The round trip of C23 for the names the status map has neither as a
\* section nor as a status.
C23_RoundTripAbsent ==
    (/\ Mapped
     /\ calc.name \notin DOMAIN calc.statusMap
     /\ calc.name \notin StatusesOf(calc.statusMap)) =>
        /\ calc.backSection = calc.name
        /\ calc.backStatus = calc.name

----------------------------------------------------------------------------
(* Transitions and moves of a linked pair *)

\* The section the task of the pair was in, and the one its issue maps to.
PreSection == SectionName(last.pre.sections, PreTask.section)

TargetSection == JiraToTodoistStatus(PreIssue.status)

\* C24: a run over a linked pair requests a transition of the issue only to
\* a status that is not equivalent to the issue's, and a move of the task
\* (with the section it may have to create) only to a section that is not
\* equivalent to the task's.
C24_OnlyIfNotEquivalent ==
    PairRun =>
        /\ \A i \in CallsOf({"DoTransition"}) :
              ~statusEquivalent(last.calls[i].arg, PreIssue.status)
        /\ Called({"MoveTaskToSection", "CreateSection"}) =>
              ~statusEquivalent(TargetSection, PreSection)

\* The direction task to issue: a transition only to a status that is not
\* equivalent to the issue's.
C24_TransitionOnlyIfNotEquivalent ==
    PairRun =>
        \A i \in CallsOf({"DoTransition"}) :
            ~statusEquivalent(last.calls[i].arg, PreIssue.status)

\* The direction issue to task: a move only to a section that is not equal
\* to the task's.
C24_MoveOnlyIfNotEqual ==
    PairRun =>
        (Called({"MoveTaskToSection", "CreateSection"}) => TargetSection # PreSection)

\* A run transitioned the issue of a pair.
C24_TransitionCase == PairRun /\ Called({"DoTransition"})

----------------------------------------------------------------------------
(* Best-effort calls *)

\* The calls whose failure the engine only warns about.
BestEffortOps == {"DoTransition", "CreateComment", "GetComments"}

ResolveKeys == {last.pre.issues[q].key : q \in IssuesToResolve}

\* Every item the run had to handle is in a bucket of the summary other than
\* the error bucket.
AllRecorded ==
    /\ \A i \in CallsOf({"CreateIssue"}) :
          last.calls[i].ok => last.calls[i].key \in KeysIn(last.summary.createdJira)
    /\ Len(last.summary.createdJira) = Cardinality(TasksToCreateFrom)
    /\ IssuesToCreateFrom \subseteq KeysIn(last.summary.createdTodoist)
    /\ PairsToSync \subseteq
          KeysIn(last.summary.updatedToTodoist) \cup KeysIn(last.summary.updatedToJira)
          \cup KeysIn(last.summary.completedTodoist)

\* C25: when the only calls that fail in a run are transitions and reads and
\* writes of comments, Run returns no error, the error bucket holds nothing
\* but issues whose resolution failed, every item is handled and every item
\* is recorded as created, updated or completed.
C25_BestEffort ==
    (last.ran /\ last.fail # {} /\ last.fail \subseteq BestEffortOps) =>
        /\ ~last.err
        /\ KeysIn(last.summary.errors) \subseteq ResolveKeys
        /\ AllProcessed
        /\ AllRecorded

\* The transition of a created issue failed: the issue is recorded as
\* created and nothing is in the error bucket.
C25_Witness ==
    /\ last.ran
    /\ last.fail = {"DoTransition"}
    /\ \E i \in CallsOf({"DoTransition"}) :
          /\ ~last.calls[i].ok
          /\ last.calls[i].key \in KeysIn(last.summary.createdJira)
    /\ last.summary.errors = <<>>

\* A failed write of a comment to a created task leaves the error bucket empty.
C25_CommentCase ==
    /\ last.ran
    /\ last.fail = {"CreateComment"}
    /\ \E i \in CallsOf({"CreateComment"}) : ~last.calls[i].ok
    /\ last.summary.errors = <<>>
    /\ last.summary.createdTodoist # <<>>

----------------------------------------------------------------------------
(* The goroutines of a run and the watch loop *)

\* C26: the calls for items are issued only when both fetch goroutines have
\* returned without error, no variable of Run is written by both goroutines,
\* and one call for an item is in flight at most.
C26_JoinBeforeItems ==
    /\ watch.run = "items" => (watch.todoist = "done" /\ watch.jira = "done")
    /\ ~watch.early
    /\ \A a \in watch.writes : \A b \in watch.writes : a.var = b.var => a.by = b.by
    /\ Cardinality(watch.inflight) <= 1

\* A call for an item is in flight after both goroutines wrote their variables.
C26_Witness ==
    /\ watch.run = "items"
    /\ watch.inflight # {}
    /\ \E a \in watch.writes : a.by = "todoist"
    /\ \E b \in watch.writes : b.by = "jira"

\* The last run returned an error and RunE is past it.
FailedRun == watch.cmd \in {"select", "panicked"} /\ watch.lastErr

\* C27: after a run that returned an error the watch command does not end
\* unless the context is done, and a new run starts then unless the context
\* is done; one run is in flight at most; the command returns nil only when
\* the context is done.
C27_WatchGoesOn ==
    /\ [](watch.active <= 1)
    /\ [](watch.cmd = "returned" /\ watch.result = "nil" => watch.cancelled)
    /\ [](FailedRun /\ ~watch.cancelled => watch.cmd = "select")
    /\ (FailedRun ~> (watch.cmd = "running" \/ watch.cancelled))

\* C27 with an interval that is positive.
C27_PositiveInterval ==
    /\ [](watch.active <= 1)
    /\ [](watch.cmd = "returned" /\ watch.result = "nil" => watch.cancelled)
    /\ [](watch.interval > 0 /\ FailedRun /\ ~watch.cancelled => watch.cmd = "select")
    /\ ((watch.interval > 0 /\ FailedRun) ~> (watch.cmd = "running" \/ watch.cancelled))

\* A run starts after a run that returned an error.
C27_Witness == watch.cmd = "running" /\ watch.lastErr /\ ~watch.cancelled

\* The first run returned an error and the making of the ticker panicked.
C27_Panicked == watch.cmd = "panicked" /\ watch.lastErr /\ ~watch.cancelled

\* C28: no call for an item that is issued when the context is done
\* succeeds; when the context is done, the run in flight ends and the
\* command returns nil.
C28_Cancellation ==
    /\ [](~watch.late)
    /\ ((watch.cancelled /\ watch.cmd = "running") ~> watch.cmd # "running")
    /\ (watch.cancelled ~> (watch.cmd = "returned" /\ watch.result = "nil"))

\* C28 with an interval that is positive.
C28_PositiveInterval ==
    /\ [](~watch.late)
    /\ ((watch.cancelled /\ watch.cmd = "running") ~> watch.cmd # "running")
    /\ ((watch.interval > 0 /\ watch.cancelled)
           ~> (watch.cmd = "returned" /\ watch.result = "nil"))

\* The context is done while a call for an item is in flight, and the next
\* call for an item is issued after that.
C28_Witness ==
    /\ watch.cancelled
    /\ watch.run = "items"
    /\ \E c \in watch.inflight : c.cancelled

\* The context was done in the first run and the making of the ticker
\* panicked.
C28_Panicked == watch.cmd = "panicked" /\ watch.cancelled

----------------------------------------------------------------------------
(* Descriptions as ADF and priorities *)

\* C29: the text got back from the ADF document made of a text is that
\* text: the document has one paragraph for each line, an empty one for an
\* empty line, and the empty text has no document and comes back empty.
C29_ADFRoundTrip ==
    calc.op = "adf" =>
        /\ calc.back = calc.text
        /\ calc.doc = NilDoc <=> calc.text = EmptyText
        /\ calc.doc.present =>
              /\ Len(calc.doc.content) = Len(calc.text)
              /\ \A i \in 1..Len(calc.text) :
                    /\ calc.doc.content[i].type = "paragraph"
                    /\ calc.doc.content[i].texts = <<>> <=> calc.text[i] = ""

\* A text with an empty line between two lines went to ADF and back.
C29_Witness ==
    /\ calc.op = "adf"
    /\ calc.text = <<"a", "", "b">>
    /\ calc.doc.present
    /\ calc.back = <<"a", "", "b">>

\* The empty text went to no document and back.
C29_EmptyCase == calc.op = "adf" /\ calc.text = EmptyText /\ calc.doc = NilDoc

\* The priority ids of Jira, from Highest to Lowest, and the place of each.
KnownPriorityIDs == <<"1", "2", "3", "4", "5">>

Urgency(id) == CHOOSE n \in 1..Len(KnownPriorityIDs) : KnownPriorityIDs[n] = TrimSpaceID(id)

IsKnownPriority(id) == \E n \in 1..Len(KnownPriorityIDs) : KnownPriorityIDs[n] = TrimSpaceID(id)

\* The priorities of Todoist: 4 is the highest, 1 the lowest.
HighestPriority == 4

LowestPriority == 1

\* C30: the priority of Todoist for the id "1" of Jira is the highest one; of
\* two known ids the more urgent one has a priority that is not lower, and a
\* higher one when the two are in the table; an id that is not known, or
\* empty, has the lowest priority.
C30_TodoistPriority ==
    calc.op = "priority" =>
        /\ calc.priority \in LowestPriority..HighestPriority
        /\ TrimSpaceID(calc.priorityID) = KnownPriorityIDs[1] => calc.priority = HighestPriority
        /\ ~IsKnownPriority(calc.priorityID) => calc.priority = LowestPriority
        /\ IsKnownPriority(calc.priorityID) =>
              \A n \in 1..Len(KnownPriorityIDs) :
                  Urgency(calc.priorityID) < n =>
                      /\ calc.priority >= TodoistPriority(KnownPriorityIDs[n])
                      /\ n <= 3 => calc.priority > TodoistPriority(KnownPriorityIDs[n])

\* The id of the highest priority of Jira was converted.
C30_Witness == calc.op = "priority" /\ calc.priorityID = "1" /\ calc.priority = 4

\* An id that Jira does not have was converted.
C30_UnknownCase == calc.op = "priority" /\ calc.priorityID = "10000" /\ calc.priority = 1

----------------------------------------------------------------------------
(* Resolved issues and tasks whose issue is not fetched *)

\* The issues that were resolved when the last run started.
PreResolved == {q \in 1..Len(last.pre.issues) : last.pre.issues[q].resolved}

\* C31: a run creates no task for an issue that is resolved when the run
\* starts, and makes no mutating call on a resolved issue that no task is
\* linked to, whether or not its key is among the completed tasks; the issue
\* is after the run as it was before.
C31_ResolvedUntouched ==
    last.ran =>
        \A q \in PreResolved :
            /\ \A c \in CallsOf({"CreateTask"}) : last.calls[c].key # last.pre.issues[q].key
            /\ TasksCreatedFrom(last.pre.issues[q].key) = {}
            /\ last.pre.issues[q].key \notin linkedKeys(PreKeys) =>
                  /\ \A c \in CallsOn(last.pre.issues[q].key) :
                        last.calls[c].op \notin MutatingCalls
                  /\ \E k \in 1..Len(issues) :
                        [issues[k] EXCEPT !.updated = 0]
                            = [last.pre.issues[q] EXCEPT !.updated = 0]

\* A run fetched the completed tasks and found among their keys the key of a
\* resolved issue without a task.
C31_Witness ==
    /\ last.ran
    /\ ~last.err
    /\ \E q \in PreResolved :
          /\ last.pre.issues[q].key \notin linkedKeys(PreKeys)
          /\ last.pre.issues[q].key \in PreDone

\* A run that did not fetch the completed tasks had a resolved issue without
\* a task.
C31_NotCompletedCase ==
    /\ last.ran
    /\ ~last.err
    /\ \E q \in PreResolved :
          /\ last.pre.issues[q].key \notin linkedKeys(PreKeys)
          /\ last.pre.issues[q].key \notin PreDone

\* The tasks of the last run's start whose content holds a key that none of
\* the fetched issues has.
Orphans ==
    {i \in 1..Len(last.pre.tasks) :
        PreKeys[i] # <<>> /\ IssueIdx(last.pre.issues, PreKeys[i]) = 0}

\* C32: a run makes no call on a task whose key is not among the fetched
\* issues and no call on an issue with that key, leaves the task as it is,
\* creates no issue and no task from it, handles no item for it and has no
\* error for it in its summary.
C32_OrphanSkipped ==
    last.ran =>
        \A i \in Orphans :
            /\ \A c \in 1..Len(last.calls) :
                  /\ last.calls[c].task # last.pre.tasks[i].id
                  /\ last.calls[c].key # PreKeys[i]
            /\ \E j \in 1..Len(tasks) : SameTask(tasks[j], last.pre.tasks[i])
            /\ \A k \in 1..Len(issues) :
                  /\ issues[k].origin # last.pre.tasks[i].id
                  /\ issues[k].key # PreKeys[i]
            /\ \A j \in 1..Len(tasks) :
                  tasks[j].origin = PreKeys[i] => tasks[j].id \in TaskIDs(last.pre.tasks)
            /\ \A h \in 1..Len(last.handled) :
                  /\ last.handled[h].task # last.pre.tasks[i].id
                  /\ last.handled[h].key # PreKeys[i]
            /\ \A e \in 1..Len(last.summary.errors) :
                  /\ last.summary.errors[e].jiraKey # PreKeys[i]
                  /\ last.summary.errors[e].summary # last.pre.tasks[i].content

\* A run that handled other items had a task whose key is not among the
\* fetched issues.
C32_Witness ==
    /\ last.ran
    /\ ~last.err
    /\ Orphans # {}
    /\ Len(last.calls) > 0
    /\ Len(last.handled) > 0

----------------------------------------------------------------------------
(* The link of a pair in the title and in the summary *)

\* s holds a link marker, at its start or further on.
HoldsMarker(s) == \E i \in 1..Len(s) : jiraPrefixPattern(SubSeq(s, i, Len(s))).ok

\* The tasks whose title the last run wrote.
Retitled1 == {last.calls[c].task : c \in {d \in CallsOf({"UpdateTask"}) : last.calls[d].ok}}

\* C33: the task 1 is linked to the issue Key1 from the start: after every
\* run that wrote its title the key in the title is Key1, and no summary of
\* an issue holds a link marker.
C33_LinkStays ==
    last.ran =>
        /\ 1 \in Retitled1 =>
              \A j \in 1..Len(tasks) :
                  tasks[j].id = 1 => ExtractJiraKey(tasks[j].content) = Key1
        /\ \A k \in 1..Len(issues) : ~HoldsMarker(issues[k].summary)

\* The part of C33 that holds: a run that wrote the title of a task that
\* was linked to a fetched issue when the run started left the key of that
\* issue in the title, and a run that wrote the summary of an issue whose
\* tasks held no marker after the link at the start of their titles left no
\* marker in the summary.
C33_LinkedLinkStays ==
    last.ran =>
        /\ \A i \in 1..Len(last.pre.tasks) :
              (/\ PreKeys[i] # <<>>
               /\ last.pre.tasks[i].id \in Retitled1) =>
                  \A j \in 1..Len(tasks) :
                      tasks[j].id = last.pre.tasks[i].id =>
                          ExtractJiraKey(tasks[j].content) = PreKeys[i]
        /\ \A c \in CallsOf({"UpdateIssue"}) :
              (/\ last.calls[c].ok
               /\ \A i \in 1..Len(last.pre.tasks) :
                     PreKeys[i] = last.calls[c].key =>
                         ~HoldsMarker(StripJiraPrefix(last.pre.tasks[i].content))) =>
                  \A k \in 1..Len(issues) :
                      issues[k].key = last.calls[c].key => ~HoldsMarker(issues[k].summary)

\* A run made an issue from the task 1, whose title held the link to Key1
\* after other text, and wrote the key of the new issue into the title.
C33_Relinked ==
    /\ last.ran
    /\ 1 \in Retitled1
    /\ \E j \in 1..Len(tasks) :
          tasks[j].id = 1 /\ ExtractJiraKey(tasks[j].content) = Key2
    /\ \E k \in 1..Len(issues) : HoldsMarker(issues[k].summary)

\* A run wrote the title of the task 1 and left the key Key1 in it.
C33_KeptCase ==
    /\ last.ran
    /\ 1 \in Retitled1
    /\ \E j \in 1..Len(tasks) :
          tasks[j].id = 1 /\ ExtractJiraKey(tasks[j].content) = Key1

----------------------------------------------------------------------------
(* Sections created by a run *)

\* The sections of the state, as the section map of a run has them.
SectionsNow == [sections |-> sections]

\* The section map is a bijection: the name of every id leads back to the
\* id, and no two ids have one name.
MapInverse ==
    /\ \A id \in 1..Len(sections) :
          secByName(SectionsNow, secByID(SectionsNow, id)) = id
    /\ \A i \in 1..Len(sections) : \A j \in 1..Len(sections) :
          sections[i] = sections[j] => i = j

\* The calls of the last run that created a section of this name.
Creations(name) ==
    {c \in CallsOf({"CreateSection"}) : last.calls[c].ok /\ last.calls[c].arg = name}

\* C34: a run creates one section at most of a name, however many issues
\* have a status that maps to it, and creates none of a name that a section
\* has already; the section map stays a bijection between ids and names.
C34_OneBucketPerName ==
    last.ran =>
        /\ \A c \in CallsOf({"CreateSection"}) :
              /\ Cardinality(Creations(last.calls[c].arg)) <= 1
              /\ \A i \in 1..Len(last.pre.sections) :
                    last.pre.sections[i] # last.calls[c].arg
        /\ Len(sections) =
              Len(last.pre.sections)
              + Cardinality({c \in CallsOf({"CreateSection"}) : last.calls[c].ok})
        /\ MapInverse

\* A run created one section and put two tasks into it.
C34_Witness ==
    /\ last.ran
    /\ Cardinality({c \in CallsOf({"CreateSection"}) : last.calls[c].ok}) = 1
    /\ Len(sections) = Len(last.pre.sections) + 1
    /\ Cardinality({j \in 1..Len(tasks) : tasks[j].section = Len(sections)}) = 2
    /\ \A k \in 1..Len(last.pre.issues) :
          SectionForJiraStatus(last.pre.issues[k].status) = sections[Len(sections)]

----------------------------------------------------------------------------
(* Closing transitions *)

\* The calls of the last run that requested the closing transition.
Closings == {c \in CallsOf({"DoTransition"}) : last.calls[c].arg = "Closed"}

\* C35: no user completes a task, so every completed task is one that a run
\* closed because its issue was resolved: no run requests the closing
\* transition of an issue.
C35_NoClosingWithoutUser == last.ran => Closings = {}

\* The part of C35 that holds: a run requests the closing transition only
\* of an unresolved issue that no task is linked to and whose key is the key
\* of a completed task.
C35_ClosingOnlyOfCompleted ==
    last.ran =>
        \A c \in Closings :
            /\ last.calls[c].key \in PreDone
            /\ last.calls[c].key \notin linkedKeys(PreKeys)
            /\ \E q \in 1..Len(last.pre.issues) :
                  /\ last.pre.issues[q].key = last.calls[c].key
                  /\ ~last.pre.issues[q].resolved

\* A run requested the closing transition of an issue that a user had
\* reopened, after a run had closed the issue's task.
C35_Reclosed ==
    /\ last.ran
    /\ edit.side = "issue"
    /\ edit.field = "resolution"
    /\ \E c \in Closings : last.calls[c].ok /\ last.calls[c].key = edit.key

----------------------------------------------------------------------------
(* Edits while a run is in flight *)

\* The last run fetched, then a user changed one of the four fields of one
\* side of the pair, then the run went through its loops.
MidRun ==
    /\ last.ran
    /\ ~last.err
    /\ edit.side \in {"task", "issue"}
    /\ edit.field \in {"title", "description", "due", "status"}
    /\ edit.paired
    /\ edit.cycles = 1
    /\ Len(tasks) = 1
    /\ Len(issues) = 1

\* The edited side has the value the user gave it.
Kept ==
    IF edit.side = "task"
    THEN CASE edit.field = "title" -> StripJiraPrefix(tasks[1].content) = edit.new
           [] edit.field = "description" -> tasks[1].description = edit.new
           [] edit.field = "due" -> tasks[1].due = edit.new
           [] edit.field = "status" -> SectionName(sections, tasks[1].section) = edit.new
    ELSE CASE edit.field = "title" -> issues[1].summary = edit.new
           [] edit.field = "description" -> issues[1].description = edit.new
           [] edit.field = "due" -> issues[1].duedate = edit.new
           [] edit.field = "status" -> issues[1].status = edit.new

\* The calls of the last run that wrote the edited side.
WritesOfEdited ==
    {c \in CallsOf(IF edit.side = "task"
                   THEN {"UpdateTask", "MoveTaskToSection", "CloseTask"}
                   ELSE {"UpdateIssue", "DoTransition"}) : last.calls[c].ok}

C36_EditOfSourceKept == (MidRun /\ WritesOfEdited = {}) => Kept

----------------------------------------------------------------------------
(* Several tasks with the link of one issue *)

\* The tasks at the start of the last run whose key is the key of a fetched
\* issue.
TasksOfFetchedIssues ==
    {i \in 1..Len(last.pre.tasks) :
        /\ PreKeys[i] # <<>>
        /\ IssueIdx(last.pre.issues, PreKeys[i]) # 0}

\* The last run passed the task to syncLinkedPair.
Reconciled(i) ==
    \E h \in 1..Len(last.handled) :
        /\ last.handled[h].what = "sync"
        /\ last.handled[h].task = last.pre.tasks[i].id

\* Another task of the start of the run has the key of task i.
HasTwin(i) == \E j \in 1..Len(last.pre.tasks) : j # i /\ PreKeys[j] = PreKeys[i]

C37_LastTwinReconciled ==
    (last.ran /\ ~last.err) =>
        \A i \in TasksOfFetchedIssues :
            (\A j \in TasksOfFetchedIssues : PreKeys[j] = PreKeys[i] => j <= i)
                => Reconciled(i)

----------------------------------------------------------------------------
(* The transition DoTransition posts *)

Transited == calc.op = "transition"

MatchingOffered == {k \in 1..Len(calc.transitions) : Matches(calc.transitions[k], calc.target)}

\* C38: DoTransition posts a transition only if it is one of the
\* transitions Jira offers whose name or destination status is the target,
\* whatever the case; when the transitions were fetched and none matches, it
\* returns an error and posts nothing; and what it posts for the target
\* "Closed" has the resolution "Done".
C38_DoTransition ==
    Transited =>
        /\ calc.posted # "" =>
              \E k \in MatchingOffered : calc.transitions[k].id = calc.posted
        /\ (~calc.getFails /\ MatchingOffered = {}) =>
              (calc.posted = "" /\ calc.err = "no transition found")
        /\ (calc.posted # "" /\ EqualFold(calc.target, "Closed")) =>
              calc.resolution = "Done"
        /\ (calc.posted # "" /\ ~calc.postFails) => calc.err = ""

\* The target "Closed" is found as the name "closed" of a transition whose
\* destination has another name, and is posted with the resolution.
C38_Witness ==
    /\ Transited
    /\ calc.target = "Closed"
    /\ calc.posted = "41"
    /\ calc.resolution = "Done"
    /\ calc.err = ""

\* Jira offers transitions and none of them matches: nothing is posted.
C38_NoMatchCase ==
    /\ Transited
    /\ calc.transitions # <<>>
    /\ MatchingOffered = {}
    /\ calc.posted = ""
    /\ calc.err = "no transition found"

====
